---------------------------- MODULE Spec2Model ----------------------------
(***************************************************************************)
(* A model of the Nutrisense nutrition assistant (src/app.py): the SQLite  *)
(* store (user_preferences, nutrition_logs), the intent routing of         *)
(* process_nutrition_query, the query composer and the restaurant search   *)
(* aggregator.                                                             *)
(*                                                                         *)
(* Text the program manipulates (queries, restriction names, generated     *)
(* lines) is a sequence of one-character strings, so that substring tests, *)
(* lower(), strip(), split() and title() are computed as Python computes   *)
(* them.  Text the program only stores or compares (user ids, URLs,        *)
(* titles) is a TLA+ string.                                               *)
(***************************************************************************)
EXTENDS Integers, Sequences, FiniteSets, TLC

(***************************************************************************)
(* Python str primitives on character sequences.                           *)
(***************************************************************************)
UpperChars == <<"A","B","C","D","E","F","G","H","I","J","K","L","M",
                "N","O","P","Q","R","S","T","U","V","W","X","Y","Z">>
LowerChars == <<"a","b","c","d","e","f","g","h","i","j","k","l","m",
                "n","o","p","q","r","s","t","u","v","w","x","y","z">>
DigitChars == {"0","1","2","3","4","5","6","7","8","9"}
Whitespace == {" ", "\t", "\n", "\r"}

Range(f) == {f[i] : i \in DOMAIN f}
UpperSet == Range(UpperChars)
LowerSet == Range(LowerChars)
IsUpper(c) == c \in UpperSet
IsLower(c) == c \in LowerSet
IsCased(c) == IsUpper(c) \/ IsLower(c)
\* \w of the re module (ASCII letters, digits, underscore)
IsWordChar(c) == IsCased(c) \/ c \in DigitChars \/ c = "_"

IndexIn(c, alphabet) == CHOOSE i \in DOMAIN alphabet : alphabet[i] = c
LowerChar(c) == IF IsUpper(c) THEN LowerChars[IndexIn(c, UpperChars)] ELSE c
UpperChar(c) == IF IsLower(c) THEN UpperChars[IndexIn(c, LowerChars)] ELSE c

\* str.lower(), character by character
Lower(s) == SubSeq([i \in DOMAIN s |-> LowerChar(s[i])], 1, Len(s))

\* str.title(): a cased character is upper-cased when it follows an uncased
\* one (or starts the text) and lower-cased otherwise
Title(s) ==
    SubSeq([i \in DOMAIN s |->
               IF i > 1 /\ IsCased(s[i - 1]) THEN LowerChar(s[i]) ELSE UpperChar(s[i])],
           1, Len(s))

\* str.istitle(): at least one cased character, upper case only after uncased
\* characters and lower case only after cased ones
IsTitle(s) ==
    /\ \E i \in DOMAIN s : IsCased(s[i])
    /\ \A i \in DOMAIN s :
          LET prevCased == i > 1 /\ IsCased(s[i - 1])
          IN  /\ IsUpper(s[i]) => ~prevCased
              /\ IsLower(s[i]) => prevCased

\* s[from:] and s[:n]
Drop(s, n) == IF n >= Len(s) THEN <<>> ELSE SubSeq(s, n + 1, Len(s))
Take(s, n) == IF n >= Len(s) THEN s ELSE SubSeq(s, 1, n)

\* k occurs in s at position i
OccursAt(s, k, i) ==
    /\ i >= 1
    /\ i + Len(k) - 1 <= Len(s)
    /\ \A j \in 1..Len(k) : s[i + j - 1] = k[j]

\* `k in s`
Contains(s, k) == \E i \in 1..(Len(s) + 1) : OccursAt(s, k, i)

\* s.find(k) + 1: the first position of k in s, 0 when there is none
Find(s, k) ==
    IF Contains(s, k)
    THEN CHOOSE i \in 1..(Len(s) + 1) :
            OccursAt(s, k, i) /\ \A j \in 1..(i - 1) : ~OccursAt(s, k, j)
    ELSE 0

\* s.split(k): the pieces between the non-overlapping occurrences of k,
\* found left to right (k is never empty here)
RECURSIVE Split(_, _)
Split(s, k) ==
    LET p == Find(s, k)
    IN  IF p = 0 THEN <<s>>
        ELSE <<Take(s, p - 1)>> \o Split(Drop(s, p + Len(k) - 1), k)

\* s.lstrip(chars), s.rstrip(chars), s.strip(chars)
RECURSIVE LStripChars(_, _)
LStripChars(s, chars) ==
    IF s # <<>> /\ Head(s) \in chars THEN LStripChars(Tail(s), chars) ELSE s
RECURSIVE RStripChars(_, _)
RStripChars(s, chars) ==
    IF s # <<>> /\ s[Len(s)] \in chars
    THEN RStripChars(SubSeq(s, 1, Len(s) - 1), chars) ELSE s
StripChars(s, chars) == RStripChars(LStripChars(s, chars), chars)
\* s.strip()
Strip(s) == StripChars(s, Whitespace)

\* s.split(): the maximal runs of non-whitespace characters
RECURSIVE SplitWs(_)
SplitWs(s) ==
    LET t == LStripChars(s, Whitespace)
    IN  IF t = <<>> THEN <<>>
        ELSE LET n == IF \E i \in DOMAIN t : t[i] \in Whitespace
                      THEN (CHOOSE i \in DOMAIN t :
                               /\ t[i] \in Whitespace
                               /\ \A j \in 1..(i - 1) : t[j] \notin Whitespace) - 1
                      ELSE Len(t)
             IN  <<Take(t, n)>> \o SplitWs(Drop(t, n))

\* sep.join(parts)
RECURSIVE Join(_, _)
Join(parts, sep) ==
    IF parts = <<>> THEN <<>>
    ELSE IF Len(parts) = 1 THEN parts[1]
    ELSE parts[1] \o sep \o Join(Tail(parts), sep)

\* any(k in s for k in keywords)
ContainsAny(s, keywords) == \E i \in DOMAIN keywords : Contains(s, keywords[i])

(***************************************************************************)
(* Optional values: None is the empty tuple, a present value v is <<v>>.   *)
(***************************************************************************)
None == <<>>
Some(v) == <<v>>
IsSome(o) == o # <<>>
\* Python truthiness of an optional text: None and "" are falsy
TruthyText(o) == o # None /\ o[1] # <<>>

(***************************************************************************)
(* Intent classification (validate_input, _is_food_logging_request,        *)
(* detect_restaurant_query).                                               *)
(***************************************************************************)
\* validate_input: the denylist
forbidden_words ==
    << <<"s","p","a","m">>,
       <<"a","b","u","s","e">>,
       <<"i","l","l","e","g","a","l">> >>

\* _is_food_logging_request: the logging keywords
food_logging_keywords ==
    << <<"a","t","e">>,
       <<"e","a","t","e","n">>,
       <<"c","o","n","s","u","m","e","d">>,
       <<"h","a","d">>,
       <<"d","r","a","n","k">>,
       <<"d","r","a","n","k">>,
       <<"l","o","g"," ","f","o","o","d">>,
       <<"l","o","g"," ","m","e","a","l">>,
       <<"l","o","g"," ","c","a","l","o","r","i","e","s">>,
       <<"t","r","a","c","k"," ","f","o","o","d">>,
       <<"t","r","a","c","k"," ","m","e","a","l">>,
       <<"a","d","d"," ","f","o","o","d">>,
       <<"a","d","d"," ","m","e","a","l">>,
       <<"r","e","c","o","r","d"," ","f","o","o","d">>,
       <<"r","e","c","o","r","d"," ","m","e","a","l">>,
       <<"j","u","s","t"," ","a","t","e">>,
       <<"j","u","s","t"," ","h","a","d">>,
       <<"j","u","s","t"," ","c","o","n","s","u","m","e","d">>,
       <<"b","r","e","a","k","f","a","s","t">>,
       <<"l","u","n","c","h">>,
       <<"d","i","n","n","e","r">>,
       <<"s","n","a","c","k">>,
       <<"m","e","a","l">> >>

\* detect_restaurant_query: its keyword lists
restaurant_keywords ==
    << <<"r","e","s","t","a","u","r","a","n","t">>,
       <<"d","i","n","i","n","g">>,
       <<"e","a","t"," ","o","u","t">>,
       <<"d","i","n","n","e","r">>,
       <<"l","u","n","c","h">>,
       <<"b","r","e","a","k","f","a","s","t">>,
       <<"f","o","o","d"," ","p","l","a","c","e">>,
       <<"c","a","f","e">>,
       <<"e","a","t","e","r","y">>,
       <<"b","a","r">>,
       <<"b","i","s","t","r","o">>,
       <<"d","i","n","e">>,
       <<"m","e","a","l">> >>

food_keywords ==
    << <<"s","e","r","v","i","n","g">>,
       <<"f","o","o","d">>,
       <<"c","u","i","s","i","n","e">>,
       <<"d","i","s","h">>,
       <<"f","i","s","h">>,
       <<"c","h","i","c","k","e","n">>,
       <<"v","e","g","e","t","a","r","i","a","n">>,
       <<"v","e","g","a","n">>,
       <<"i","t","a","l","i","a","n">>,
       <<"c","h","i","n","e","s","e">>,
       <<"i","n","d","i","a","n">>,
       <<"p","i","z","z","a">>,
       <<"b","u","r","g","e","r">>,
       <<"s","u","s","h","i">>,
       <<"s","e","a","f","o","o","d">> >>

location_indicators ==
    << <<"i","n"," ">>,
       <<"a","t"," ">>,
       <<"n","e","a","r"," ">>,
       <<"a","r","o","u","n","d"," ">>,
       <<"f","o","r"," ">>,
       <<"a","t"," ">> >>

food_location_places ==
    << <<"p","u","n","e">>,
       <<"m","u","m","b","a","i">>,
       <<"d","e","l","h","i">>,
       <<"b","a","n","g","a","l","o","r","e">>,
       <<"h","y","d","e","r","a","b","a","d">>,
       <<"c","h","e","n","n","a","i">>,
       <<"k","o","l","k","a","t","a">>,
       <<"g","u","r","g","a","o","n">>,
       <<"n","o","i","d","a">>,
       <<"b","a","n","d","r","a">>,
       <<"a","n","d","h","e","r","i">>,
       <<"p","o","w","a","i">> >>

common_places ==
    << <<"p","u","n","e">>,
       <<"m","u","m","b","a","i">>,
       <<"d","e","l","h","i">>,
       <<"b","a","n","g","a","l","o","r","e">>,
       <<"h","y","d","e","r","a","b","a","d">>,
       <<"c","h","e","n","n","a","i">>,
       <<"k","o","l","k","a","t","a">>,
       <<"g","u","r","g","a","o","n">>,
       <<"n","o","i","d","a">>,
       <<"b","a","n","d","r","a">>,
       <<"a","n","d","h","e","r","i">>,
       <<"p","o","w","a","i">>,
       <<"k","o","r","e","g","a","o","n"," ","p","a","r","k">>,
       <<"v","i","m","a","n"," ","n","a","g","a","r">>,
       <<"w","h","i","t","e","f","i","e","l","d">>,
       <<"i","n","d","i","r","a","n","a","g","a","r">>,
       <<"c","o","n","n","a","u","g","h","t"," ","p","l","a","c","e">>,
       <<"k","a","r","o","l"," ","b","a","g","h">>,
       <<"c","y","b","e","r"," ","c","i","t","y">>,
       <<"s","e","c","t","o","r"," ","2","9">>,
       <<"m","g"," ","r","o","a","d">>,
       <<"b","r","i","g","a","d","e"," ","r","o","a","d">> >>

\* process_nutrition_query: the fitness keywords
workout_keywords ==
    << <<"w","o","r","k","o","u","t">>,
       <<"e","x","e","r","c","i","s","e">>,
       <<"f","i","t","n","e","s","s">>,
       <<"t","r","a","i","n","i","n","g">>,
       <<"g","y","m">>,
       <<"s","t","r","e","n","g","t","h">>,
       <<"c","a","r","d","i","o">>,
       <<"m","u","s","c","l","e">> >>

\* A query as the caller passes it: text, or a value that is not a str
\* (None, a number), for which isinstance(user_input, str) is false
TextQuery(s) == [is_str |-> TRUE, s |-> s]
NonTextQuery == [is_str |-> FALSE, s |-> <<>>]

\* variant: the denylist is matched with the case of the input
ValidateCaseSensitive(user_input) ==
    IF user_input.s = <<>> \/ ~user_input.is_str
    THEN FALSE
    ELSE ~ContainsAny(user_input.s, forbidden_words)

validate_input(user_input) ==
    IF user_input.s = <<>> \/ ~user_input.is_str
    THEN FALSE
    ELSE ~ContainsAny(Lower(user_input.s), forbidden_words)

\* variant: a query that names a dining keyword is not taken as food logging
LoggingUnlessDining(query) ==
    /\ ContainsAny(Lower(query), food_logging_keywords)
    /\ ~ContainsAny(Lower(query), restaurant_keywords)

is_food_logging_request(query) ==
    ContainsAny(Lower(query), food_logging_keywords)

has_workout_keyword(query) ==
    ContainsAny(Lower(query), workout_keywords)

\* Strategy 1, the words kept after an indicator: the leading words (of at
\* most 4) that, stripped of '.,!?', are non-empty and title-cased or longer
\* than 3 characters.  The words come from query_lower.
MaxLocationWords == 4
MinLongWord == 3
RECURSIVE KeptWords(_)
KeptWords(words) ==
    IF words = <<>> THEN <<>>
    ELSE LET clean_word == StripChars(Head(words), {".", ",", "!", "?"})
         IN  IF clean_word # <<>>
                  /\ (IsTitle(clean_word) \/ Len(clean_word) > MinLongWord)
             THEN <<clean_word>> \o KeptWords(Tail(words))
             ELSE <<>>

location_words_after(query_lower, indicator) ==
    LET parts == Split(query_lower, indicator)
        remaining_text == Strip(parts[2])
        words == SplitWs(remaining_text)
    IN  KeptWords(Take(words, MaxLocationWords))

\* Strategy 1: the first indicator, in list order, that occurs in the query
\* and is followed by at least one kept word
RECURSIVE strategy_indicator(_, _)
strategy_indicator(query_lower, indicators) ==
    IF indicators = <<>> THEN None
    ELSE LET indicator == Head(indicators)
             location_words ==
                 IF Contains(query_lower, indicator)
                 THEN location_words_after(query_lower, indicator)
                 ELSE <<>>
         IN  IF location_words # <<>>
             THEN Some(Title(Join(location_words, <<" ">>)))
             ELSE strategy_indicator(query_lower, Tail(indicators))

\* Strategy 2: the first gazetteer name, in list order, that occurs in the
\* query
RECURSIVE strategy_common_place(_, _)
strategy_common_place(query_lower, places) ==
    IF places = <<>> THEN None
    ELSE IF Contains(query_lower, Head(places)) THEN Some(Title(Head(places)))
    ELSE strategy_common_place(query_lower, Tail(places))

\* Strategy 3: re.findall(r'\b[A-Z][a-z]+(?:\s+[A-Z][a-z]+)*\b', query).
\* A word of a match is an upper-case letter and a maximal run of at least
\* one lower-case letter, not preceded and not followed by a word character.
RECURSIVE LowerRunEnd(_, _)
LowerRunEnd(q, i) ==
    IF i + 1 <= Len(q) /\ IsLower(q[i + 1]) THEN LowerRunEnd(q, i + 1) ELSE i

\* the last position of the capitalised word starting at i, 0 when none does
CapWordEnd(q, i) ==
    IF /\ i >= 1 /\ i + 1 <= Len(q)
       /\ IsUpper(q[i]) /\ IsLower(q[i + 1])
       /\ (i = 1 \/ ~IsWordChar(q[i - 1]))
    THEN LET e == LowerRunEnd(q, i + 1)
         IN  IF e = Len(q) \/ ~IsWordChar(q[e + 1]) THEN e ELSE 0
    ELSE 0

RECURSIVE SkipWs(_, _)
SkipWs(q, i) == IF i <= Len(q) /\ q[i] \in Whitespace THEN SkipWs(q, i + 1) ELSE i

\* the last position of the longest run of capitalised words starting with
\* the word at i that ends at e
RECURSIVE CapRunEnd(_, _, _)
CapRunEnd(q, i, e) ==
    LET j == SkipWs(q, e + 1)
        e2 == IF j > e + 1 THEN CapWordEnd(q, j) ELSE 0
    IN  IF e2 > 0 THEN CapRunEnd(q, j, e2) ELSE e

RECURSIVE CapMatches(_, _)
CapMatches(q, i) ==
    IF i > Len(q) THEN <<>>
    ELSE LET e == CapWordEnd(q, i)
         IN  IF e = 0 THEN CapMatches(q, i + 1)
             ELSE LET last == CapRunEnd(q, i, e)
                  IN  <<SubSeq(q, i, last)>> \o CapMatches(q, last + 1)

\* max(matches, key=len): the first of the longest matches
LongestMatch(matches) ==
    matches[CHOOSE i \in DOMAIN matches :
                /\ \A j \in DOMAIN matches : Len(matches[j]) <= Len(matches[i])
                /\ \A j \in 1..(i - 1) : Len(matches[j]) < Len(matches[i])]

strategy_capitalised(query) ==
    LET matches == CapMatches(query, 1)
    IN  IF matches = <<>> THEN None ELSE Some(LongestMatch(matches))

\* variant: the capitalised words are looked at before the gazetteer
DetectCapitalisedBeforePlaces(query) ==
    LET query_lower == Lower(query)
        s1 == strategy_indicator(query_lower, location_indicators)
        s2 == strategy_common_place(query_lower, common_places)
        s3 == strategy_capitalised(query)
    IN  IF ContainsAny(query_lower, restaurant_keywords)
           \/ (ContainsAny(query_lower, food_keywords)
               /\ ContainsAny(query_lower, food_location_places))
        THEN IF IsSome(s1) THEN s1
             ELSE IF IsSome(s3) THEN s3
             ELSE s2
        ELSE None

\* The location of a restaurant query, None when the query is not one or
\* no strategy finds a location
detect_restaurant_query(query) ==
    LET query_lower == Lower(query)
        has_restaurant_keyword == ContainsAny(query_lower, restaurant_keywords)
        has_food_location_pattern ==
            /\ ContainsAny(query_lower, food_keywords)
            /\ ContainsAny(query_lower, food_location_places)
        s1 == strategy_indicator(query_lower, location_indicators)
        s2 == strategy_common_place(query_lower, common_places)
    IN  IF has_restaurant_keyword \/ has_food_location_pattern
        THEN IF IsSome(s1) THEN s1
             ELSE IF IsSome(s2) THEN s2
             ELSE strategy_capitalised(query)
        ELSE None

(***************************************************************************)
(* Python values that cross the store boundary.                            *)
(***************************************************************************)
\* a list of str, a dict (its items in insertion order), or the JSON text
\* of one of them (a sequence of tokens)
PyList(items) == [kind |-> "list", v |-> items]
PyDict(items) == [kind |-> "dict", v |-> items]
PyText(tokens) == [kind |-> "text", v |-> tokens]
SameValue(a, b) == a.kind = b.kind /\ a.v = b.v

\* a scalar handed to sqlite3 as a parameter: a number, a str, None, or a
\* value sqlite3 cannot bind (a list, a dict)
PyNum(n) == [t |-> "num", n |-> n, s |-> ""]
PyStr(s) == [t |-> "str", n |-> 0, s |-> s]
PyNone == [t |-> "none", n |-> 0, s |-> ""]
PyUnbindable == [t |-> "other", n |-> 0, s |-> ""]
Bindable(v) == v.t # "other"

\* dict.get(key) and dict.get(key, default) on a dict with str keys
DictGet(d, key) == IF key \in DOMAIN d THEN d[key] ELSE None
DictGetDefault(d, key, default) == IF key \in DOMAIN d THEN d[key] ELSE default

\* lookup in a dict given as its items <<key, value>>; None when absent
ItemsGet(items, key) ==
    IF \E i \in DOMAIN items : items[i][1] = key
    THEN Some(items[CHOOSE i \in DOMAIN items : items[i][1] = key][2])
    ELSE None

(***************************************************************************)
(* json.dumps and json.loads on the values the preference columns hold: a  *)
(* list of str, a dict from str to bool.  The encoded text is a sequence   *)
(* of tokens.                                                              *)
(***************************************************************************)
Tok(t) == [t |-> t, v |-> <<>>]
StrTok(s) == [t |-> "str", v |-> s]
BoolTok(b) == IF b THEN Tok("true") ELSE Tok("false")

RECURSIVE DumpItems(_)
DumpItems(items) ==
    IF items = <<>> THEN <<>>
    ELSE IF Len(items) = 1 THEN <<StrTok(items[1])>>
    ELSE <<StrTok(items[1]), Tok(",")>> \o DumpItems(Tail(items))

RECURSIVE DumpPairs(_)
DumpPairs(items) ==
    IF items = <<>> THEN <<>>
    ELSE LET one == <<StrTok(items[1][1]), Tok(":"), BoolTok(items[1][2])>>
         IN  IF Len(items) = 1 THEN one
             ELSE one \o <<Tok(",")>> \o DumpPairs(Tail(items))

json_dumps(value) ==
    IF value.kind = "list"
    THEN <<Tok("[")>> \o DumpItems(value.v) \o <<Tok("]")>>
    ELSE <<Tok("{")>> \o DumpPairs(value.v) \o <<Tok("}")>>

\* the elements between the brackets: str tokens separated by commas
RECURSIVE LoadItems(_)
LoadItems(toks) ==
    IF toks = <<>> THEN [ok |-> TRUE, v |-> <<>>]
    ELSE IF toks[1].t # "str" THEN [ok |-> FALSE, v |-> <<>>]
    ELSE IF Len(toks) = 1 THEN [ok |-> TRUE, v |-> <<toks[1].v>>]
    ELSE IF toks[2].t # "," \/ Len(toks) = 2 THEN [ok |-> FALSE, v |-> <<>>]
    ELSE LET rest == LoadItems(Drop(toks, 2))
         IN  [ok |-> rest.ok, v |-> <<toks[1].v>> \o rest.v]

\* the members between the braces: str : bool, separated by commas
RECURSIVE LoadPairs(_)
LoadPairs(toks) ==
    IF toks = <<>> THEN [ok |-> TRUE, v |-> <<>>]
    ELSE IF Len(toks) < 3 THEN [ok |-> FALSE, v |-> <<>>]
    ELSE IF toks[1].t # "str" \/ toks[2].t # ":" \/ toks[3].t \notin {"true", "false"}
    THEN [ok |-> FALSE, v |-> <<>>]
    ELSE LET one == <<toks[1].v, toks[3].t = "true">>
         IN  IF Len(toks) = 3 THEN [ok |-> TRUE, v |-> <<one>>]
             ELSE IF toks[4].t # "," \/ Len(toks) = 4 THEN [ok |-> FALSE, v |-> <<>>]
             ELSE LET rest == LoadPairs(Drop(toks, 4))
                  IN  [ok |-> rest.ok, v |-> <<one>> \o rest.v]

\* json.loads: [ok, value]; ok is false where json.loads raises JSONDecodeError
json_loads(toks) ==
    LET n == Len(toks)
        inner == IF n >= 2 THEN SubSeq(toks, 2, n - 1) ELSE <<>>
    IN  IF n >= 2 /\ toks[1].t = "[" /\ toks[n].t = "]"
        THEN [ok |-> LoadItems(inner).ok, value |-> PyList(LoadItems(inner).v)]
        ELSE IF n >= 2 /\ toks[1].t = "{" /\ toks[n].t = "}"
        THEN [ok |-> LoadPairs(inner).ok, value |-> PyDict(LoadPairs(inner).v)]
        ELSE [ok |-> FALSE, value |-> PyText(toks)]

(***************************************************************************)
(* The state: the configuration, the two tables of the SQLite file with    *)
(* their AUTOINCREMENT counters, the clock of CURRENT_TIMESTAMP (a day     *)
(* number), and a record of the last operation: its arguments, the value   *)
(* it returned, the handlers it invoked and the external calls it issued.  *)
(***************************************************************************)
VARIABLES config, user_preferences, nutrition_logs, pref_seq, log_seq, now, last,
          saves, db_lock

vars == <<config, user_preferences, nutrition_logs, pref_seq, log_seq, now, last,
          saves, db_lock>>
store == <<user_preferences, nutrition_logs, pref_seq, log_seq>>

\* Config: an API key is a str, "" when the environment does not set it
Configs == [mistral_api_key : {"", "key"}, exa_api_key : {"", "key"}]
\* the deployment with both services configured
SysConfigs == {c \in Configs : c.mistral_api_key # "" /\ c.exa_api_key # ""}

(***************************************************************************)
(* The preference store (save_user_preferences, get_user_preferences).     *)
(***************************************************************************)
StructKeys ==
    {"dietary_restrictions", "food_allergies", "cuisine_preferences", "health_goals"}
ScalarKeys ==
    {"weight_goal", "current_weight", "activity_level", "age", "gender",
     "height_cm", "daily_calorie_target", "protein_target", "carb_target",
     "fat_target"}
PrefKeys == StructKeys \cup ScalarKeys

\* variant: an update that keeps the stored value of every field the payload
\* does not carry
MergedPrefRow(user_id, preferences, id, ts) ==
    LET old == {r \in user_preferences : r.user_id = user_id}
        kept == IF old = {} THEN <<>>
                ELSE LET r == CHOOSE x \in old : TRUE
                     IN  [k \in PrefKeys \ DOMAIN preferences |->
                            IF k \in StructKeys
                            THEN (IF json_loads(r[k]).ok THEN json_loads(r[k]).value
                                  ELSE PyList(<<>>))
                            ELSE r[k]]
        merged == [k \in DOMAIN preferences \cup DOMAIN kept |->
                     IF k \in DOMAIN preferences THEN preferences[k] ELSE kept[k]]
        text(k, empty) == json_dumps(DictGetDefault(merged, k, empty))
    IN  [id |-> id, user_id |-> user_id,
         dietary_restrictions |-> text("dietary_restrictions", PyList(<<>>)),
         food_allergies |-> text("food_allergies", PyList(<<>>)),
         cuisine_preferences |-> text("cuisine_preferences", PyList(<<>>)),
         health_goals |-> text("health_goals", PyDict(<<>>)),
         weight_goal |-> DictGet(merged, "weight_goal"),
         current_weight |-> DictGet(merged, "current_weight"),
         activity_level |-> DictGet(merged, "activity_level"),
         age |-> DictGet(merged, "age"),
         gender |-> DictGet(merged, "gender"),
         height_cm |-> DictGet(merged, "height_cm"),
         daily_calorie_target |-> DictGet(merged, "daily_calorie_target"),
         protein_target |-> DictGet(merged, "protein_target"),
         carb_target |-> DictGet(merged, "carb_target"),
         fat_target |-> DictGet(merged, "fat_target"),
         created_at |-> ts, updated_at |-> ts]

\* The row save_user_preferences writes: the four structured fields as JSON
\* text (an absent list is [], an absent mapping {}), the scalars as given
\* (None when absent), id from the AUTOINCREMENT counter, created_at and
\* updated_at from CURRENT_TIMESTAMP.  A number keeps its value under the
\* column's affinity (70 reads back as 70.0, which equals 70).
PrefRow(user_id, preferences, id, ts) ==
    [id |-> id,
     user_id |-> user_id,
     dietary_restrictions |->
        json_dumps(DictGetDefault(preferences, "dietary_restrictions", PyList(<<>>))),
     food_allergies |->
        json_dumps(DictGetDefault(preferences, "food_allergies", PyList(<<>>))),
     cuisine_preferences |->
        json_dumps(DictGetDefault(preferences, "cuisine_preferences", PyList(<<>>))),
     health_goals |->
        json_dumps(DictGetDefault(preferences, "health_goals", PyDict(<<>>))),
     weight_goal |-> DictGet(preferences, "weight_goal"),
     current_weight |-> DictGet(preferences, "current_weight"),
     activity_level |-> DictGet(preferences, "activity_level"),
     age |-> DictGet(preferences, "age"),
     gender |-> DictGet(preferences, "gender"),
     height_cm |-> DictGet(preferences, "height_cm"),
     daily_calorie_target |-> DictGet(preferences, "daily_calorie_target"),
     protein_target |-> DictGet(preferences, "protein_target"),
     carb_target |-> DictGet(preferences, "carb_target"),
     fat_target |-> DictGet(preferences, "fat_target"),
     created_at |-> ts,
     updated_at |-> ts]

\* variant: a plain INSERT into a table without the UNIQUE constraint
PlainInsert(table, row) == table \cup {row}

\* variant: an UPDATE of the columns the payload gives, the others keeping
\* the values of the user's record
UpdateGivenColumns(table, row) ==
    LET old == {r \in table : r.user_id = row.user_id}
    IN  IF old = {} THEN table \cup {row}
        ELSE (table \ old)
             \cup { [k \in DOMAIN row |->
                        IF k \in ScalarKeys /\ row[k] = None THEN r[k] ELSE row[k]]
                    : r \in old }

\* INSERT OR REPLACE under UNIQUE(user_id): the rows in conflict with the
\* new row are deleted, then the new row is inserted
InsertOrReplace(table, row) ==
    {r \in table : r.user_id # row.user_id} \cup {row}

SavedMessage == "Preferences saved successfully!"
SaveErrorMessage == "Error saving preferences"

\* save_user_preferences: [table, seq, ret].  store_ok is false when sqlite3
\* raises (the file cannot be opened or written).
save_user_preferences(user_id, preferences, store_ok) ==
    IF store_ok
    THEN [table |-> InsertOrReplace(user_preferences,
                        PrefRow(user_id, preferences, pref_seq + 1, now)),
          seq |-> pref_seq + 1,
          ret |-> SavedMessage]
    ELSE [table |-> user_preferences, seq |-> pref_seq, ret |-> SaveErrorMessage]

\* variant: the JSON columns are returned as stored, not decoded
NoDecodeFields(preferences, keys) == preferences

\* The four json.loads of get_user_preferences, in order, inside one try: a
\* JSONDecodeError leaves the failing field and the ones after it as text
RECURSIVE DecodeFields(_, _)
DecodeFields(preferences, keys) ==
    IF keys = <<>> THEN preferences
    ELSE LET loaded == json_loads(preferences[Head(keys)].v)
         IN  IF loaded.ok
             THEN DecodeFields([preferences EXCEPT ![Head(keys)] = loaded.value],
                               Tail(keys))
             ELSE preferences

JsonFieldOrder ==
    <<"dietary_restrictions", "food_allergies", "cuisine_preferences", "health_goals">>

\* dict(zip(columns, row)) with the JSON columns still text
RowDict(row) ==
    [k \in DOMAIN row |-> IF k \in StructKeys THEN PyText(row[k]) ELSE row[k]]

\* get_user_preferences: {} when there is no row for the user or sqlite3
\* raises, else the row as a dict with its JSON columns decoded
get_user_preferences(table, user_id, store_ok) ==
    LET rows == {r \in table : r.user_id = user_id}
    IN  IF ~store_ok \/ rows = {} THEN <<>>
        ELSE DecodeFields(RowDict(CHOOSE r \in rows : TRUE), JsonFieldOrder)

\* Python truthiness of user_prefs.get(key), for a scalar column holding a
\* number or None and for a structured field
TruthyNumber(prefs, key) ==
    key \in DOMAIN prefs /\ prefs[key] # None /\ prefs[key][1] # 0
TruthyStruct(prefs, key) ==
    key \in DOMAIN prefs /\ prefs[key].v # <<>>
\* the list under key, [] when absent
ListOf(prefs, key) ==
    IF key \in DOMAIN prefs /\ prefs[key].kind = "list" THEN prefs[key].v ELSE <<>>

(***************************************************************************)
(* The food log (log_food_intake).                                         *)
(***************************************************************************)
LogRow(id, user_id, food_item, calories, ts) ==
    [id |-> id, user_id |-> user_id, food_item |-> food_item,
     calories |-> calories, timestamp |-> ts]

\* variant: the entry of the user is kept up to date: a new entry replaces
\* the user's earlier ones
LogReplacingEarlier(user_id, food_item, calories, store_ok) ==
    IF store_ok /\ Bindable(food_item) /\ Bindable(calories)
    THEN [table |-> {r \in nutrition_logs : r.user_id # user_id} \cup
                      {LogRow(log_seq + 1, user_id, food_item, calories, now)},
          seq |-> log_seq + 1,
          ret |-> [kind |-> "Logged", food_item |-> food_item, calories |-> calories]]
    ELSE [table |-> nutrition_logs,
          seq |-> log_seq,
          ret |-> [kind |-> "Error logging food", food_item |-> food_item,
                   calories |-> calories]]

\* log_food_intake: [table, seq, ret].  The INSERT raises, and nothing is
\* written, when the store fails or a parameter is of a type sqlite3 cannot
\* bind; the id is the next value of the AUTOINCREMENT counter.
log_food_intake(user_id, food_item, calories, store_ok) ==
    IF store_ok /\ Bindable(food_item) /\ Bindable(calories)
    THEN [table |-> nutrition_logs \cup
                      {LogRow(log_seq + 1, user_id, food_item, calories, now)},
          seq |-> log_seq + 1,
          ret |-> [kind |-> "Logged", food_item |-> food_item, calories |-> calories]]
    ELSE [table |-> nutrition_logs,
          seq |-> log_seq,
          ret |-> [kind |-> "Error logging food", food_item |-> food_item,
                   calories |-> calories]]

(***************************************************************************)
(* External services.  A response of the text-generation service or of the *)
(* search service is one of: "ok" (status 200 and a body of the expected   *)
(* shape), "status" (a status other than 200), "exception" (requests       *)
(* raises: network error, timeout), "malformed" (status 200 and a body     *)
(* that is not JSON or lacks the expected path, so that reading it         *)
(* raises).  A call the program issues is recorded as [service, purpose].  *)
(***************************************************************************)
HttpOk == 200
MistralCall(purpose) == [service |-> "mistral", purpose |-> purpose]
ExaCall(query) == [service |-> "exa", purpose |-> query]

(***************************************************************************)
(* The query composer (_generate_smart_search_queries,                     *)
(* _generate_fallback_queries).                                            *)
(***************************************************************************)
\* the dietary tag of one restriction: the first keyword, in the order of
\* the elif chain, that occurs in restriction.lower(); None when none does
DietKeywords ==
    << <<<<"v","e","g","e","t","a","r","i","a","n">>, <<"v","e","g","e","t","a","r","i","a","n">>>>,
       <<<<"v","e","g","a","n">>, <<"v","e","g","a","n">>>>,
       <<<<"p","e","s","c","a","t","a","r","i","a","n">>, <<"p","e","s","c","a","t","a","r","i","a","n">>>>,
       <<<<"k","e","t","o">>, <<"k","e","t","o">>>>,
       <<<<"g","l","u","t","e","n">>, <<"g","l","u","t","e","n","-","f","r","e","e">>>>,
       <<<<"h","a","l","a","l">>, <<"h","a","l","a","l">>>>,
       <<<<"k","o","s","h","e","r">>, <<"k","o","s","h","e","r">>>> >>

\* variant: a restriction without a keyword is passed on as it is
RECURSIVE KeepUnrecognised(_, _)
KeepUnrecognised(restriction_lower, table) ==
    IF table = <<>> THEN Some(restriction_lower)
    ELSE IF Contains(restriction_lower, Head(table)[1]) THEN Some(Head(table)[2])
    ELSE KeepUnrecognised(restriction_lower, Tail(table))

RECURSIVE DietTag(_, _)
DietTag(restriction_lower, table) ==
    IF table = <<>> THEN None
    ELSE IF Contains(restriction_lower, Head(table)[1]) THEN Some(Head(table)[2])
    ELSE DietTag(restriction_lower, Tail(table))

RECURSIVE DietaryTerms(_)
DietaryTerms(restrictions) ==
    IF restrictions = <<>> THEN <<>>
    ELSE DietTag(Lower(Head(restrictions)), DietKeywords)
            \o DietaryTerms(Tail(restrictions))

\* user_prefs['health_goals'].get(goal) is truthy
GoalSet(user_prefs, goal) ==
    /\ TruthyStruct(user_prefs, "health_goals")
    /\ user_prefs["health_goals"].kind = "dict"
    /\ ItemsGet(user_prefs["health_goals"].v, goal) = Some(TRUE)

HealthTerms(user_prefs) ==
    (IF GoalSet(user_prefs, <<"w","e","i","g","h","t","_","l","o","s","s">>) THEN <<<<"h","e","a","l","t","h","y">>>> ELSE <<>>)
    \o (IF GoalSet(user_prefs, <<"m","u","s","c","l","e","_","g","a","i","n">>) THEN <<<<"p","r","o","t","e","i","n","-","r","i","c","h">>>> ELSE <<>>)

\* variant: the platform query names every dietary tag
PlatformQueryAllTags(location, dietary_terms, health_terms, cuisine) ==
    LET dietary_str == Join(dietary_terms, <<" ">>)
        cuisine_str == IF cuisine # <<>> THEN cuisine ELSE <<"r","e","s","t","a","u","r","a","n","t","s">>
        health_str == IF health_terms # <<>> THEN Join(health_terms, <<" ">>)
                      ELSE <<"g","o","o","d">>
    IN  << Strip(<<"b","e","s","t"," ">> \o dietary_str \o <<" ">> \o cuisine_str \o <<" ","i","n"," ">> \o location),
           Strip(health_str \o <<" ","r","e","s","t","a","u","r","a","n","t","s"," ">> \o location \o <<" ","r","e","v","i","e","w","s">>),
           location \o <<" ","r","e","s","t","a","u","r","a","n","t","s">>
               \o (IF dietary_terms # <<>> THEN <<" ">> \o dietary_str ELSE <<>>)
               \o <<" ","z","o","m","a","t","o"," ","s","w","i","g","g","y">> >>

\* the three queries of _generate_fallback_queries, from the tags
FallbackTemplates(location, dietary_terms, health_terms, cuisine) ==
    LET dietary_str == Join(dietary_terms, <<" ">>)
        cuisine_str == IF cuisine # <<>> THEN cuisine ELSE <<"r","e","s","t","a","u","r","a","n","t","s">>
        query1 == Strip(<<"b","e","s","t"," ">> \o dietary_str \o <<" ">> \o cuisine_str
                            \o <<" ","i","n"," ">> \o location)
        health_str == IF health_terms # <<>> THEN Join(health_terms, <<" ">>)
                      ELSE <<"g","o","o","d">>
        query2 == Strip(health_str \o <<" ","r","e","s","t","a","u","r","a","n","t","s"," ">> \o location \o <<" ","r","e","v","i","e","w","s">>)
        platform_query ==
            location \o <<" ","r","e","s","t","a","u","r","a","n","t","s">>
                \o (IF dietary_terms # <<>> THEN <<" ">> \o dietary_terms[1] ELSE <<>>)
                \o <<" ","z","o","m","a","t","o"," ","s","w","i","g","g","y">>
    IN  <<query1, query2, platform_query>>

generate_fallback_queries(location, user_prefs, cuisine) ==
    FallbackTemplates(location,
                      DietaryTerms(ListOf(user_prefs, "dietary_restrictions")),
                      HealthTerms(user_prefs),
                      cuisine)

\* variant: the lines are stripped but the blank ones are kept
KeepBlankLines(lines) == [i \in DOMAIN lines |-> Strip(lines[i])]

\* [q.strip() for q in content.split('\n') if q.strip()]
RECURSIVE StrippedNonBlank(_)
StrippedNonBlank(lines) ==
    IF lines = <<>> THEN <<>>
    ELSE (IF Strip(Head(lines)) # <<>> THEN <<Strip(Head(lines))>> ELSE <<>>)
            \o StrippedNonBlank(Tail(lines))

MinGeneratedQueries == 3

\* _generate_smart_search_queries: [queries, calls].  response is what the
\* text-generation service answers if it is called.
generate_smart_search_queries(location, user_prefs, cuisine, response) ==
    LET fallback == generate_fallback_queries(location, user_prefs, cuisine)
        queries ==
            IF response.kind = "ok" /\ response.status = HttpOk
            THEN StrippedNonBlank(Split(Strip(response.content), <<"\n">>))
            ELSE <<>>
    IN  IF config.mistral_api_key # ""
        THEN [queries |-> IF Len(queries) >= MinGeneratedQueries
                          THEN Take(queries, MinGeneratedQueries)
                          ELSE fallback,
              calls |-> <<MistralCall("compose")>>]
        ELSE [queries |-> fallback, calls |-> <<>>]

(***************************************************************************)
(* The search aggregator (search_restaurants).  A search result is         *)
(* [url, title, is_dict]: url is "" when the result has no url or an empty *)
(* one (result.get("url", "") is falsy either way); is_dict is false for   *)
(* an item of the response that is not an object, on which result.get      *)
(* raises.                                                                 *)
(***************************************************************************)
MaxQueries == 6
ResultQuota == 10
MaxReturned == 8

ExaNotConfigured ==
    <<"E","X","A","_","A","P","I","_","K","E","Y"," ","n","o","t"," ","c","o","n","f","i","g","u","r","e","d","."," ","P","l","e","a","s","e"," ","s","e","t"," ","y","o","u","r"," ","E","x","a"," ","A","P","I"," ","k","e","y"," ","i","n"," ","e","n","v","i","r","o","n","m","e","n","t"," ","v","a","r","i","a","b","l","e","s"," ","t","o"," ","e","n","a","b","l","e"," ","r","e","s","t","a","u","r","a","n","t"," ","s","e","a","r","c","h",".">>
\* variant: the error of the outer handler reports the exception only
SearchFailedWithoutKeyName(detail) ==
    <<"S","e","a","r","c","h"," ","f","a","i","l","e","d",":"," ">> \o detail
SearchFailed(detail) ==
    <<"S","e","a","r","c","h"," ","f","a","i","l","e","d",":"," ">> \o detail \o <<"."," ","P","l","e","a","s","e"," ","c","h","e","c","k"," ","y","o","u","r"," ","E","X","A","_","A","P","I","_","K","E","Y"," ","c","o","n","f","i","g","u","r","a","t","i","o","n",".">>
ItemNotDict == <<"'","s","t","r","'"," ","o","b","j","e","c","t"," ","h","a","s"," ","n","o"," ","a","t","t","r","i","b","u","t","e"," ","'","g","e","t","'">>

\* variant: the loop without its early exit: every query is sent
RECURSIVE SearchAllQueries(_, _, _, _, _, _)
SearchAllQueries(queries, exa, i, all_results, successful_queries, calls) ==
    IF i > Len(queries)
    THEN [all_results |-> all_results, successful_queries |-> successful_queries,
          calls |-> calls]
    ELSE LET response == IF i \in DOMAIN exa THEN exa[i]
                         ELSE [kind |-> "exception", status |-> 0, results |-> <<>>]
             issued == Append(calls, ExaCall(queries[i]))
         IN  IF response.kind = "ok" /\ response.status = HttpOk
             THEN SearchAllQueries(queries, exa, i + 1, all_results \o response.results,
                                   successful_queries + 1, issued)
             ELSE SearchAllQueries(queries, exa, i + 1, all_results,
                                   successful_queries, issued)

\* variant: the loop gives up at the first call that fails
RECURSIVE SearchUntilFailure(_, _, _, _, _, _)
SearchUntilFailure(queries, exa, i, all_results, successful_queries, calls) ==
    IF i > Len(queries)
    THEN [all_results |-> all_results, successful_queries |-> successful_queries,
          calls |-> calls]
    ELSE LET response == IF i \in DOMAIN exa THEN exa[i]
                         ELSE [kind |-> "exception", status |-> 0, results |-> <<>>]
             issued == Append(calls, ExaCall(queries[i]))
         IN  IF response.kind = "ok" /\ response.status = HttpOk
             THEN LET extended == all_results \o response.results
                  IN  IF Len(extended) >= ResultQuota
                      THEN [all_results |-> extended,
                            successful_queries |-> successful_queries + 1,
                            calls |-> issued]
                      ELSE SearchUntilFailure(queries, exa, i + 1, extended,
                                              successful_queries + 1, issued)
             ELSE [all_results |-> all_results, successful_queries |-> successful_queries,
                   calls |-> issued]

\* variant: a query whose call fails is sent a second time
RECURSIVE SearchWithRetry(_, _, _, _, _, _)
SearchWithRetry(queries, exa, i, all_results, successful_queries, calls) ==
    IF i > Len(queries)
    THEN [all_results |-> all_results, successful_queries |-> successful_queries,
          calls |-> calls]
    ELSE LET response == IF i \in DOMAIN exa THEN exa[i]
                         ELSE [kind |-> "exception", status |-> 0, results |-> <<>>]
             issued == Append(calls, ExaCall(queries[i]))
         IN  IF response.kind = "ok" /\ response.status = HttpOk
             THEN LET extended == all_results \o response.results
                  IN  IF Len(extended) >= ResultQuota
                      THEN [all_results |-> extended,
                            successful_queries |-> successful_queries + 1,
                            calls |-> issued]
                      ELSE SearchWithRetry(queries, exa, i + 1, extended,
                                           successful_queries + 1, issued)
             ELSE SearchWithRetry(queries, exa, i + 1, all_results,
                                  successful_queries,
                                  Append(issued, ExaCall(queries[i])))

\* The loop over the queries: [all_results, successful_queries, calls].
\* exa[i] is what the search service answers to the i-th call.
RECURSIVE SearchLoop(_, _, _, _, _, _)
SearchLoop(queries, exa, i, all_results, successful_queries, calls) ==
    IF i > Len(queries)
    THEN [all_results |-> all_results, successful_queries |-> successful_queries,
          calls |-> calls]
    ELSE LET response == IF i \in DOMAIN exa THEN exa[i]
                         ELSE [kind |-> "exception", status |-> 0, results |-> <<>>]
             issued == Append(calls, ExaCall(queries[i]))
         IN  IF response.kind = "ok" /\ response.status = HttpOk
             THEN LET extended == all_results \o response.results
                  IN  IF Len(extended) >= ResultQuota
                      THEN [all_results |-> extended,
                            successful_queries |-> successful_queries + 1,
                            calls |-> issued]
                      ELSE SearchLoop(queries, exa, i + 1, extended,
                                      successful_queries + 1, issued)
             ELSE SearchLoop(queries, exa, i + 1, all_results,
                             successful_queries, issued)

\* variant: every result that has a url is kept
KeepEveryResult(all_results, seen_urls) ==
    SelectSeq(all_results, LAMBDA result : result.url # "")

\* variant: the results are reduced to the first of each url, the missing
\* url being one of them
RECURSIVE UniqueWithoutUrlTest(_, _)
UniqueWithoutUrlTest(all_results, seen_urls) ==
    IF all_results = <<>> THEN <<>>
    ELSE LET result == Head(all_results)
         IN  IF result.url \notin seen_urls
             THEN <<result>> \o UniqueWithoutUrlTest(Tail(all_results),
                                                     seen_urls \cup {result.url})
             ELSE UniqueWithoutUrlTest(Tail(all_results), seen_urls)

\* Remove duplicates based on URL: the first result of each non-empty url
RECURSIVE UniqueByUrl(_, _)
UniqueByUrl(all_results, seen_urls) ==
    IF all_results = <<>> THEN <<>>
    ELSE LET result == Head(all_results)
         IN  IF result.url # "" /\ result.url \notin seen_urls
             THEN <<result>> \o UniqueByUrl(Tail(all_results), seen_urls \cup {result.url})
             ELSE UniqueByUrl(Tail(all_results), seen_urls)

\* variant: a search without unique results is reported as an error
EmptyResultsAsError(tried, successful) ==
    [error |-> SearchFailed(<<"n","o"," ","r","e","s","u","l","t","s">>),
     results |-> <<>>, total_found |-> 0]

\* the value returned when no unique result survived
EmptyResults(tried, successful) ==
    [results |-> <<>>,
     total_found |-> 0,
     debug_info |-> [tried |-> tried, successful |-> successful, unique |-> 0]]

\* search_restaurants: [ret, calls].  ret is {"error": ...} or
\* {"results", "total_found", "debug_info"}; debug_info is the counters its
\* text reports.  compose is the text-generation service's answer to the
\* composer, exa the search service's answers; store_ok is false when
\* sqlite3 raises during the request.
search_restaurants(location, cuisine, user_id, compose, exa, store_ok) ==
    IF config.exa_api_key = ""
    THEN [ret |-> [error |-> ExaNotConfigured], calls |-> <<>>]
    ELSE
    LET user_prefs == IF user_id # "" THEN get_user_preferences(user_preferences, user_id, store_ok)
                      ELSE <<>>
        preferred == ListOf(user_prefs, "cuisine_preferences")
        cuisine2 == IF cuisine = <<>> /\ preferred # <<>> THEN preferred[1] ELSE cuisine
        composed == generate_smart_search_queries(location, user_prefs, cuisine2, compose)
        search_queries == composed.queries
        loop == SearchLoop(Take(search_queries, MaxQueries), exa, 1, <<>>, 0,
                           composed.calls)
        unique_results == UniqueByUrl(loop.all_results, {})
    IN  IF \E i \in DOMAIN loop.all_results : ~loop.all_results[i].is_dict
        THEN [ret |-> [error |-> SearchFailed(ItemNotDict)], calls |-> loop.calls]
        ELSE IF unique_results = <<>>
        THEN [ret |-> EmptyResults(Len(search_queries), loop.successful_queries),
              calls |-> loop.calls]
        ELSE [ret |-> [results |-> Take(unique_results, MaxReturned),
                       total_found |-> Len(unique_results),
                       debug_info |-> [successful |-> loop.successful_queries,
                                       unique |-> Len(unique_results)]],
              calls |-> loop.calls]

(***************************************************************************)
(* The response synthesizer (format_restaurant_results,                    *)
(* _generate_ai_restaurant_recommendations).  A returned text is a record  *)
(* naming its block and the data the block shows.                          *)
(***************************************************************************)
MaxListed == 5

\* the numbered listing of the first 5 results; url is None where the
\* listing does not print one
Listing(results, mode) ==
    [i \in 1..Len(Take(results, MaxListed)) |->
        [n |-> i,
         title |-> results[i].title,
         url |-> IF mode = "always" \/ (mode = "if_present" /\ results[i].url # "")
                 THEN Some(results[i].url) ELSE None]]

generate_ai_restaurant_recommendations(results, location, user_prefs, response) ==
    IF config.mistral_api_key = ""
    THEN [ret |-> [block |-> "listing", found |-> Len(results),
                   entries |-> Listing(results, "always")],
          calls |-> <<>>]
    ELSE [ret |-> IF response.kind = "ok" /\ response.status = HttpOk
                  THEN [block |-> "ai", found |-> Len(results), entries |-> <<>>,
                        text |-> Strip(response.content)]
                  ELSE IF response.kind = "status"
                  THEN [block |-> "listing", found |-> Len(results),
                        entries |-> Listing(results, "if_present")]
                  ELSE [block |-> "listing", found |-> Len(results),
                        entries |-> Listing(results, "never")],
          calls |-> <<MistralCall("recommend")>>]

\* the text of the except clause of format_restaurant_results
TroubleFormatting ==
    [block |-> "had trouble formatting the results", found |-> 0, entries |-> <<>>]

\* format_restaurant_results: [ret, calls].  search_results is the dict
\* search_restaurants returns, or PyNone for a value that is no dict; a
\* value or a result that is no dict raises inside the try and gets the
\* text of the except clause before any request is sent.
format_restaurant_results(search_results, location, user_prefs, response) ==
    IF search_results = PyNone
    THEN [ret |-> TroubleFormatting, calls |-> <<>>]
    ELSE IF "error" \in DOMAIN search_results
    THEN [ret |-> [block |-> IF Contains(search_results.error, <<"E","X","A","_","A","P","I","_","K","E","Y">>)
                             THEN "Restaurant Search Not Available"
                             ELSE "Search Issue",
                   found |-> 0, entries |-> <<>>],
          calls |-> <<>>]
    ELSE IF search_results.results = <<>>
    THEN [ret |-> IF "debug_info" \in DOMAIN search_results
                  THEN [block |-> "No Restaurant Results Found",
                        found |-> 0, entries |-> <<>>,
                        debug_info |-> search_results.debug_info]
                  ELSE [block |-> "No Restaurant Results Found",
                        found |-> 0, entries |-> <<>>],
          calls |-> <<>>]
    ELSE IF \E i \in DOMAIN search_results.results : ~search_results.results[i].is_dict
    THEN [ret |-> TroubleFormatting, calls |-> <<>>]
    ELSE generate_ai_restaurant_recommendations(search_results.results, location,
                                                user_prefs, response)

(***************************************************************************)
(* Food logging from chat (_handle_food_logging_request).  The generated   *)
(* text, given to json.loads, is "invalid" (JSONDecodeError), "object" (a  *)
(* JSON object, with the fields it has) or "other" (valid JSON that is not *)
(* an object, on which food_data.get raises).                              *)
(***************************************************************************)
UnknownFood == PyStr("Unknown food")

\* the sub-flow after the check of the user id: the request to the
\* text-generation service, the parse of its text, the log and the reply
ExtractAndLog(query, user_id, user_prefs, response, store_ok) ==
    LET calls == <<MistralCall("extract")>>
        unchanged(block) ==
            [ret |-> [block |-> block], calls |-> calls,
             table |-> nutrition_logs, seq |-> log_seq]
    IN  IF response.kind = "ok" /\ response.status = HttpOk
        THEN IF response.content.json = "invalid"
             THEN unchanged("I couldn't understand the food details. Please try: 'I ate [food name]'")
             ELSE IF response.content.json = "other"
             THEN unchanged("Error logging food")
             ELSE LET food_data == response.content
                      food_item == IF food_data.has_food_item THEN food_data.food_item
                                   ELSE UnknownFood
                      calories == IF food_data.has_calories THEN food_data.calories
                                  ELSE PyNum(0)
                      logged == log_food_intake(user_id, food_item, calories, store_ok)
                  IN  [ret |-> [block |-> "confirmation",
                                log_result |-> logged.ret,
                                progress |->
                                    IF TruthyNumber(user_prefs, "daily_calorie_target")
                                    THEN Some([added |-> calories,
                                               target |-> user_prefs["daily_calorie_target"][1]])
                                    ELSE None,
                                tip |-> TruthyStruct(user_prefs, "dietary_restrictions")
                                          \/ TruthyStruct(user_prefs, "health_goals")],
                       calls |-> calls, table |-> logged.table, seq |-> logged.seq]
        ELSE IF response.kind = "status"
        THEN unchanged("I couldn't process your food logging request. Please try: 'I ate [food name]'")
        ELSE unchanged("Error logging food")

\* variant: the sub-flow without the check of the user id
LogWithoutUserId(query, user_id, user_prefs, response, store_ok) ==
    ExtractAndLog(query, user_id, user_prefs, response, store_ok)

\* [ret, calls, table, seq]
handle_food_logging_request(query, user_id, user_prefs, response, store_ok) ==
    IF user_id = ""
    THEN [ret |-> [block |-> "Please set your User ID first"],
          calls |-> <<>>, table |-> nutrition_logs, seq |-> log_seq]
    ELSE ExtractAndLog(query, user_id, user_prefs, response, store_ok)

(***************************************************************************)
(* Workout plans and general advice (generate_workout_plan,                *)
(* _get_ai_nutrition_advice).                                              *)
(***************************************************************************)
HttpUnauthorized == 401

\* variant: a plan that answers with an explanatory text where it cannot
\* call the service or the service refuses
WorkoutWithFallback(user_prefs, query, response) ==
    IF config.mistral_api_key = ""
    THEN [raised |-> FALSE, ret |-> [block |-> "MISTRAL_API_KEY required"], calls |-> <<>>]
    ELSE LET calls == <<MistralCall("workout")>>
         IN  IF response.kind = "ok" /\ response.status = HttpOk
             THEN [raised |-> FALSE, ret |-> [block |-> "workout plan"], calls |-> calls]
             ELSE IF response.kind = "status"
             THEN [raised |-> FALSE, ret |-> [block |-> "Mistral Agents API failed"],
                   calls |-> calls]
             ELSE [raised |-> TRUE, ret |-> [block |-> "exception"], calls |-> calls]

\* [raised, ret, calls]: raised is true when the function raises
generate_workout_plan(user_prefs, query, response) ==
    IF config.mistral_api_key = ""
    THEN [raised |-> TRUE, ret |-> [block |-> "MISTRAL_API_KEY required"], calls |-> <<>>]
    ELSE LET calls == <<MistralCall("workout")>>
         IN  IF response.kind = "ok" /\ response.status = HttpOk
             THEN [raised |-> FALSE, ret |-> [block |-> "workout plan"], calls |-> calls]
             ELSE IF response.kind = "status"
             THEN [raised |-> TRUE, ret |-> [block |-> "Mistral Agents API failed"],
                   calls |-> calls]
             ELSE [raised |-> TRUE, ret |-> [block |-> "exception"], calls |-> calls]

\* [ret, calls]
get_ai_nutrition_advice(query, user_prefs, response) ==
    IF config.mistral_api_key = ""
    THEN [ret |-> [block |-> "Mistral API key not configured"], calls |-> <<>>]
    ELSE [ret |-> IF response.kind = "ok" /\ response.status = HttpOk
                  THEN [block |-> "advice"]
                  ELSE IF response.kind = "status"
                  THEN IF response.status = HttpUnauthorized
                       THEN [block |-> "Authentication Error (401)"]
                       ELSE [block |-> "API Error"]
                  ELSE [block |-> "Error"],
          calls |-> <<MistralCall("advice")>>]

(***************************************************************************)
(* The operations.                                                         *)
(***************************************************************************)
\* Bounds of the model: the ids the AUTOINCREMENT counters may reach and
\* the last day of the clock
MaxPrefId == 2
MaxLogId == 2
MaxDay == 2
MaxEntries == 3

\* The calls of save_user_preferences in flight, one per session thread:
\* "idle" before the call, "called" up to conn.execute, "executed" between
\* conn.execute and conn.commit
\* (the row is written inside the connection's transaction, which holds the
\* write lock of the database file), "returned" after the return.
Writers == {"w1", "w2"}
Unlocked == ""
IdleSave ==
    [pc |-> "idle", user_id |-> "", preferences |-> <<>>, row |-> <<>>,
     ret |-> "", commit_no |-> 0, overlapped |-> FALSE]
NoSaves == [w \in Writers |-> IdleSave]

NoOperation ==
    [op |-> "none", user_id |-> "", ret |-> [block |-> "none"],
     handlers |-> <<>>, calls |-> <<>>]

\* save_user_preferences(user_id, preferences); the record of the operation
\* keeps the rows the REPLACE deleted
SaveUserPreferences(user_id, preferences, store_ok) ==
    /\ pref_seq < MaxPrefId
    /\ \E saved \in {save_user_preferences(user_id, preferences, store_ok)} :
          /\ user_preferences' = saved.table
          /\ pref_seq' = saved.seq
          /\ last' = [op |-> "save_user_preferences", user_id |-> user_id,
                      preferences |-> preferences, ret |-> saved.ret,
                      replaced |-> IF store_ok
                                   THEN {r \in user_preferences : r.user_id = user_id}
                                   ELSE {},
                      handlers |-> <<>>, calls |-> <<>>]
    /\ UNCHANGED <<config, saves, db_lock, nutrition_logs, log_seq, now>>

\* the calls between their start and their return
InFlight == {w \in Writers : saves[w].pc \in {"called", "executed"}}

\* save_user_preferences is called: the connection is opened and the JSON
\* columns are built; overlapped records that another call was in flight
SaveCall(w, user_id, preferences) ==
    /\ saves[w].pc = "idle"
    /\ pref_seq + Cardinality(InFlight) < MaxPrefId
    /\ saves' = [v \in Writers |->
                    IF v = w
                    THEN [pc |-> "called", user_id |-> user_id,
                          preferences |-> preferences, row |-> <<>>,
                          ret |-> "", commit_no |-> 0,
                          overlapped |-> InFlight # {}]
                    ELSE IF v \in InFlight
                    THEN [saves[v] EXCEPT !.overlapped = TRUE]
                    ELSE saves[v]]
    /\ UNCHANGED <<config, store, now, last, db_lock>>

\* conn.execute: the statement opens the transaction and takes the write
\* lock, which is free
SaveExecute(w) ==
    /\ saves[w].pc = "called"
    /\ db_lock = Unlocked
    /\ db_lock' = w
    /\ saves' = [saves EXCEPT ![w].pc = "executed",
                              ![w].row = PrefRow(saves[w].user_id, saves[w].preferences,
                                                 pref_seq + 1, now)]
    /\ UNCHANGED <<config, store, now, last>>

\* conn.execute while another connection holds the write lock: sqlite3 waits
\* and, the lock still held at the timeout, raises 'database is locked',
\* which the except clause turns into the error text
SaveBusy(w) ==
    /\ saves[w].pc = "called"
    /\ db_lock \notin {Unlocked, w}
    /\ saves' = [saves EXCEPT ![w].pc = "returned", ![w].ret = SaveErrorMessage]
    /\ last' = [op |-> "save_user_preferences", user_id |-> saves[w].user_id,
                preferences |-> saves[w].preferences, ret |-> SaveErrorMessage,
                replaced |-> {}, handlers |-> <<>>, calls |-> <<>>]
    /\ UNCHANGED <<config, store, now, db_lock>>

\* conn.commit and the return: the row replaces the user's record and the
\* lock is released
SaveCommit(w) ==
    /\ saves[w].pc = "executed"
    /\ db_lock = w
    /\ user_preferences' = InsertOrReplace(user_preferences, saves[w].row)
    /\ pref_seq' = pref_seq + 1
    /\ db_lock' = Unlocked
    /\ saves' = [saves EXCEPT ![w].pc = "returned", ![w].ret = SavedMessage,
                              ![w].commit_no = pref_seq + 1]
    /\ last' = [op |-> "save_user_preferences", user_id |-> saves[w].user_id,
                preferences |-> saves[w].preferences, ret |-> SavedMessage,
                replaced |-> {r \in user_preferences : r.user_id = saves[w].user_id},
                handlers |-> <<>>, calls |-> <<>>]
    /\ UNCHANGED <<config, nutrition_logs, log_seq, now>>

\* get_user_preferences(user_id)
GetUserPreferences(user_id, store_ok) ==
    /\ last' = [op |-> "get_user_preferences", user_id |-> user_id,
                ret |-> get_user_preferences(user_preferences, user_id, store_ok),
                handlers |-> <<>>, calls |-> <<>>]
    /\ UNCHANGED <<config, saves, db_lock, store, now>>

\* The "Log Food" form of show_food_logger_page: an entry is logged unless
\* the food item is empty or the calories are 0
FoodLoggerSubmit(user_id, food_item, calories, store_ok) ==
    LET logged == log_food_intake(user_id, PyStr(food_item), PyNum(calories), store_ok)
        rejected == food_item = "" \/ calories = 0
    IN  /\ log_seq < MaxLogId
        /\ nutrition_logs' = IF rejected THEN nutrition_logs ELSE logged.table
        /\ log_seq' = IF rejected THEN log_seq ELSE logged.seq
        /\ last' = [op |-> "log_food_intake", user_id |-> user_id,
                    ret |-> IF rejected
                            THEN [kind |-> "Please enter both food item and calories",
                                  food_item |-> PyStr(food_item),
                                  calories |-> PyNum(calories)]
                            ELSE logged.ret,
                    handlers |-> <<>>, calls |-> <<>>]
        /\ UNCHANGED <<config, saves, db_lock, user_preferences, pref_seq, now>>

\* log_food_intake(user_id, food_item, calories), called directly
LogFoodIntake(user_id, food_item, calories, store_ok) ==
    /\ log_seq < MaxEntries
    /\ \E logged \in {log_food_intake(user_id, food_item, calories, store_ok)} :
          /\ nutrition_logs' = logged.table
          /\ log_seq' = logged.seq
          /\ last' = [op |-> "log_food_intake", user_id |-> user_id,
                      ret |-> logged.ret, handlers |-> <<>>, calls |-> <<>>]
    /\ UNCHANGED <<config, saves, db_lock, user_preferences, pref_seq, now>>

\* "View Today's Log" of show_food_logger_page: the entries of the user
\* whose date is today, their number and the sum of their calories.  No
\* figure is shown when there is no entry; sum() raises on a calorie value
\* that is not a number (NULL, text), and the page shows the error.
RECURSIVE SumCalories(_)
SumCalories(rows) ==
    IF rows = {} THEN 0
    ELSE LET r == CHOOSE x \in rows : TRUE
         IN  r.calories.n + SumCalories(rows \ {r})

\* variant: the entries of the user, of any day
EntriesOfAnyDay(user_id) ==
    {r \in nutrition_logs : r.user_id = user_id}

TodaysEntries(user_id) ==
    {r \in nutrition_logs : r.user_id = user_id /\ r.timestamp = now}

DailySummary(user_id, store_ok) ==
    LET entries == TodaysEntries(user_id)
    IN  IF ~store_ok \/ \E r \in entries : r.calories.t # "num"
        THEN [kind |-> "Error retrieving daily summary"]
        ELSE IF entries = {}
        THEN [kind |-> "No food entries logged today"]
        ELSE [kind |-> "Today's Food Log Summary",
              total_calories |-> SumCalories(entries),
              meals_logged |-> Cardinality(entries)]

ViewTodaysLog(user_id, store_ok) ==
    /\ last' = [op |-> "view_todays_log", user_id |-> user_id,
                ret |-> DailySummary(user_id, store_ok),
                handlers |-> <<>>, calls |-> <<>>]
    /\ UNCHANGED <<config, saves, db_lock, store, now>>

\* the clock of CURRENT_TIMESTAMP moves to the next day
Tick ==
    /\ now < MaxDay
    /\ now' = now + 1
    /\ UNCHANGED <<config, saves, db_lock, store, last>>

\* _generate_smart_search_queries(location, user_prefs, cuisine): the
\* text-generation service answers only if it is called
ComposeQueries(location, user_prefs, cuisine, answers) ==
    /\ \E response \in (IF config.mistral_api_key # ""
                      THEN {Some(a) : a \in answers} ELSE {None}) :
          \E composed \in {generate_smart_search_queries(location, user_prefs, cuisine,
                                  IF response = None
                                  THEN [kind |-> "exception", status |-> 0, content |-> <<>>]
                                  ELSE response[1])} :
              last' = [op |-> "generate_smart_search_queries", user_id |-> "",
                       location |-> location, user_prefs |-> user_prefs,
                       cuisine |-> cuisine, response |-> response,
                       ret |-> composed.queries,
                       handlers |-> <<>>, calls |-> composed.calls]
    /\ UNCHANGED <<config, saves, db_lock, store, now>>

\* search_restaurants(location, cuisine, user_id)
SearchRestaurants(location, cuisine, user_id, store_ok, composeAnswers, exaAnswers) ==
    /\ \E compose \in composeAnswers, exa \in exaAnswers :
          \E found \in {search_restaurants(location, cuisine, user_id, compose, exa,
                                           store_ok)} :
              last' = [op |-> "search_restaurants", user_id |-> user_id,
                       location |-> location, cuisine |-> cuisine,
                       compose |-> compose, exa |-> exa, store_ok |-> store_ok,
                       ret |-> found.ret,
                       handlers |-> <<>>, calls |-> found.calls]
    /\ UNCHANGED <<config, saves, db_lock, store, now>>

\* format_restaurant_results(search_results, location, user_prefs): the
\* text-generation service's answer is recorded only if it was asked
FormatRestaurantResults(search_results, location, user_prefs, answers) ==
    /\ \E response \in answers :
          \E formatted \in {format_restaurant_results(search_results, location,
                                                      user_prefs, response)} :
              last' = [op |-> "format_restaurant_results", user_id |-> "",
                       search_results |-> search_results, location |-> location,
                       response |-> IF formatted.calls = <<>> THEN None
                                    ELSE Some(response),
                       ret |-> formatted.ret,
                       handlers |-> <<>>, calls |-> formatted.calls]
    /\ UNCHANGED <<config, saves, db_lock, store, now>>

\* generate_workout_plan(user_prefs, query), called directly: the
\* text-generation service's answer is recorded only if it was asked
GenerateWorkoutPlan(user_prefs, query, answers) ==
    /\ \E response \in answers :
          \E plan \in {generate_workout_plan(user_prefs, query, response)} :
              last' = [op |-> "generate_workout_plan", user_id |-> "",
                       user_prefs |-> user_prefs, query |-> query,
                       response |-> IF plan.calls = <<>> THEN None ELSE Some(response),
                       raised |-> plan.raised, ret |-> plan.ret,
                       handlers |-> <<>>, calls |-> plan.calls]
    /\ UNCHANGED <<config, saves, db_lock, store, now>>

\* _generate_fallback_queries(location, user_prefs, cuisine)
GenerateFallbackQueries(location, user_prefs, cuisine) ==
    /\ last' = [op |-> "generate_fallback_queries", user_id |-> "",
                location |-> location, user_prefs |-> user_prefs, cuisine |-> cuisine,
                ret |-> generate_fallback_queries(location, user_prefs, cuisine),
                handlers |-> <<>>, calls |-> <<>>]
    /\ UNCHANGED <<config, saves, db_lock, store, now>>

\* detect_restaurant_query(query)
DetectRestaurantQuery(query) ==
    /\ last' = [op |-> "detect_restaurant_query", user_id |-> "", query |-> query,
                ret |-> detect_restaurant_query(query),
                handlers |-> <<>>, calls |-> <<>>]
    /\ UNCHANGED <<config, saves, db_lock, store, now>>

\* _handle_food_logging_request(query, user_id, user_prefs), the preferences
\* being those get_user_preferences returns: the sub-flow of a chat message
\* taken as a food log, answered by the text-generation service
HandleFoodLoggingRequest(query, user_id, store_ok, response) ==
    /\ log_seq < MaxLogId
    /\ \E r \in {handle_food_logging_request(query, user_id,
                        IF user_id # ""
                        THEN get_user_preferences(user_preferences, user_id, store_ok)
                        ELSE <<>>,
                        response, store_ok)} :
          /\ nutrition_logs' = r.table
          /\ log_seq' = r.seq
          /\ last' = [op |-> "handle_food_logging_request", user_id |-> user_id,
                      query |-> query, response |-> response, store_ok |-> store_ok,
                      ret |-> r.ret, handlers |-> <<>>, calls |-> r.calls]
    /\ UNCHANGED <<config, saves, db_lock, user_preferences, pref_seq, now>>

ErrorProcessing == [block |-> "Sorry, I encountered an error processing your query"]

\* One way a request can end: the handlers it ran, the text it returns, the
\* calls it issued to the external services, the tables it read, and the
\* food log it leaves
Outcome(handlers, ret, calls, reads, table, seq) ==
    [handlers |-> handlers, ret |-> ret, calls |-> calls, reads |-> reads,
     table |-> table, seq |-> seq, raised |-> FALSE]

\* A request in which the handler raised: the exception is in ret
Raise(handlers, exception, calls, reads) ==
    [handlers |-> handlers, ret |-> exception, calls |-> calls, reads |-> reads,
     table |-> nutrition_logs, seq |-> log_seq, raised |-> TRUE]

\* variant: no except clause around the body
Uncaught(outcome) == outcome

\* the except clause of process_nutrition_query: an exception raised in the
\* body becomes the returned text
ExceptAtTop(outcome) ==
    IF outcome.raised
    THEN [outcome EXCEPT !.ret = ErrorProcessing, !.raised = FALSE]
    ELSE outcome

InvalidInput == [block |-> "Invalid input. Please provide a valid nutrition question."]

\* the read of get_user_preferences(user_id), made only for a user id
PreferencesRead(user_id) == IF user_id # "" THEN <<"user_preferences">> ELSE <<>>

\* The body of process_nutrition_query(query, user_id): the outcomes the
\* request can have.  The answer of an external service is drawn where the
\* code calls it, from the answers the specification considers
\* (answers.extract, answers.compose, ...).
ProcessBody(query, user_id, store_ok, answers) ==
    IF ~validate_input(query)
    THEN {Outcome(<<>>, InvalidInput, <<>>, <<>>, nutrition_logs, log_seq)}
    ELSE
    LET user_prefs == IF user_id # ""
                      THEN get_user_preferences(user_preferences, user_id, store_ok)
                      ELSE <<>>
        reads == PreferencesRead(user_id)
        location == detect_restaurant_query(query.s)
    IN  IF is_food_logging_request(query.s)
        THEN { LET r == handle_food_logging_request(query.s, user_id, user_prefs,
                                                    response, store_ok)
               IN  Outcome(<<"food_logging">>, r.ret, r.calls, reads, r.table, r.seq) :
                   response \in answers.extract }
        ELSE IF TruthyText(location)
        THEN { LET found == search_restaurants(location[1], <<>>, user_id,
                                               compose, exa, store_ok)
                   shown == format_restaurant_results(found.ret, location[1],
                                                      user_prefs, recommend)
               IN  Outcome(<<"restaurant_search">>, shown.ret,
                           found.calls \o shown.calls,
                           reads \o (IF config.exa_api_key # ""
                                     THEN PreferencesRead(user_id) ELSE <<>>),
                           nutrition_logs, log_seq) :
                   compose \in answers.compose, exa \in answers.exa,
                   recommend \in answers.recommend }
        ELSE IF has_workout_keyword(query.s)
        THEN { LET r == generate_workout_plan(user_prefs, query.s, response)
               IN  IF r.raised
                   THEN Raise(<<"workout_plan">>, r.ret, r.calls, reads)
                   ELSE Outcome(<<"workout_plan">>, r.ret, r.calls, reads,
                                nutrition_logs, log_seq) :
                   response \in answers.workout }
        ELSE { LET r == get_ai_nutrition_advice(query.s, user_prefs, response)
               IN  Outcome(<<"nutrition_advice">>, r.ret, r.calls, reads,
                           nutrition_logs, log_seq) :
                   response \in answers.advice }

\* process_nutrition_query(query, user_id): the body inside try/except
process_nutrition_query(query, user_id, store_ok, answers) ==
    { ExceptAtTop(outcome) : outcome \in ProcessBody(query, user_id, store_ok, answers) }

\* A chat request: process_nutrition_query runs to its end
ProcessNutritionQuery(query, user_id, store_ok, answers) ==
    /\ log_seq < MaxLogId
    /\ \E outcome \in process_nutrition_query(query, user_id, store_ok, answers) :
          /\ last' = [op |-> "process_nutrition_query", user_id |-> user_id,
                      query |-> query, ret |-> outcome.ret,
                      handlers |-> outcome.handlers, calls |-> outcome.calls,
                      reads |-> outcome.reads, raised |-> outcome.raised]
          /\ nutrition_logs' = outcome.table
          /\ log_seq' = outcome.seq
    /\ UNCHANGED <<config, saves, db_lock, user_preferences, pref_seq, now>>

(***************************************************************************)
(* The inputs the specifications draw from.                                *)
(***************************************************************************)
Users == {"u1", "u2"}

Restrict(f, keys) == [k \in keys \cap DOMAIN f |-> f[k]]

\* Two payloads as the preferences page builds them, and the payloads that
\* carry only some of their fields
FullPayloads ==
    { [dietary_restrictions |-> PyList(<<<<"V","e","g","a","n">>>>),
       food_allergies |-> PyList(<<<<"N","u","t","s">>>>),
       cuisine_preferences |-> PyList(<<<<"I","t","a","l","i","a","n">>, <<"I","n","d","i","a","n">>>>),
       health_goals |-> PyDict(<< <<<<"w","e","i","g","h","t","_","l","o","s","s">>, TRUE>> >>),
       weight_goal |-> Some(65), current_weight |-> Some(70),
       activity_level |-> Some("Moderate"), age |-> Some(25),
       gender |-> Some("Male"), height_cm |-> Some(170),
       daily_calorie_target |-> Some(2000), protein_target |-> Some(150),
       carb_target |-> Some(200), fat_target |-> Some(65)],
      [dietary_restrictions |-> PyList(<<<<"N","o","n","-","V","e","g","e","t","a","r","i","a","n">>, <<"G","l","u","t","e","n","-","F","r","e","e">>>>),
       food_allergies |-> PyList(<<>>),
       cuisine_preferences |-> PyList(<<>>),
       health_goals |-> PyDict(<< <<<<"m","u","s","c","l","e","_","g","a","i","n">>, TRUE>>, <<<<"w","e","i","g","h","t","_","l","o","s","s">>, FALSE>> >>),
       weight_goal |-> Some(80), current_weight |-> Some(90),
       activity_level |-> Some(""), age |-> Some(40),
       gender |-> Some(""), height_cm |-> Some(180),
       daily_calorie_target |-> None, protein_target |-> Some(20),
       carb_target |-> Some(20), fat_target |-> Some(20)] }

KeySets ==
    { PrefKeys, {}, {"dietary_restrictions", "age"} }

Payloads == {Restrict(p, keys) : p \in FullPayloads, keys \in KeySets}

(***************************************************************************)
(* SpecPrefs: the preference store under any sequence of saves and reads.  *)
(***************************************************************************)
InitPrefs ==
    /\ config = [mistral_api_key |-> "", exa_api_key |-> ""]
    /\ user_preferences = {}
    /\ nutrition_logs = {}
    /\ pref_seq = 0
    /\ log_seq = 0
    /\ now = 1
    /\ last = NoOperation
    /\ saves = NoSaves
    /\ db_lock = Unlocked

NextPrefs ==
    \/ \E user_id \in Users, preferences \in Payloads, store_ok \in BOOLEAN :
          SaveUserPreferences(user_id, preferences, store_ok)
    \/ \E user_id \in Users, store_ok \in BOOLEAN :
          GetUserPreferences(user_id, store_ok)

SpecPrefs == InitPrefs /\ [][NextPrefs]_vars

(***************************************************************************)
(* Answers of the external services.                                       *)
(***************************************************************************)
MistralOk(content) == [kind |-> "ok", status |-> HttpOk, content |-> content]
MistralStatus(status) == [kind |-> "status", status |-> status, content |-> <<>>]
MistralException == [kind |-> "exception", status |-> 0, content |-> <<>>]
MistralMalformed == [kind |-> "malformed", status |-> HttpOk, content |-> <<>>]

ExaOk(results) == [kind |-> "ok", status |-> HttpOk, results |-> results]
ExaStatus(status) == [kind |-> "status", status |-> status, results |-> <<>>]
\* a non-success status whose body carries results all the same
ExaStatusWithBody(status, results) == [kind |-> "status", status |-> status, results |-> results]
ExaException == [kind |-> "exception", status |-> 0, results |-> <<>>]
ExaMalformed == [kind |-> "malformed", status |-> HttpOk, results |-> <<>>]

Result(url, title) == [url |-> url, title |-> title, is_dict |-> TRUE]
NotAnObject == [url |-> "", title |-> "", is_dict |-> FALSE]

\* what json.loads makes of the text generated for food extraction
FoodObject(food_item, calories) ==
    [json |-> "object", has_food_item |-> TRUE, food_item |-> food_item,
     has_calories |-> TRUE, calories |-> calories]
FoodInvalidJson ==
    [json |-> "invalid", has_food_item |-> FALSE, food_item |-> PyNone,
     has_calories |-> FALSE, calories |-> PyNone]
FoodNotAnObject ==
    [json |-> "other", has_food_item |-> FALSE, food_item |-> PyNone,
     has_calories |-> FALSE, calories |-> PyNone]

HttpServerError == 500
ThreeLines ==
    <<"b","e","s","t"," ","v","e","g","a","n"," ","r","e","s","t","a","u","r","a","n","t","s"," ","i","n"," ","P","u","n","e","\n","P","u","n","e"," ","h","e","a","l","t","h","y"," ","d","i","n","i","n","g"," ","r","e","v","i","e","w","s","\n","v","e","g","a","n"," ","r","e","s","t","a","u","r","a","n","t","s"," ","P","u","n","e">>

(***************************************************************************)
(* SpecCompose: the query composer, called with any of the arguments and   *)
(* answered by the text-generation service in any of the ways below.       *)
(***************************************************************************)
ComposeLocations == { <<"P","u","n","e">>, <<"K","o","r","e","g","a","o","n"," ","P","a","r","k">> }
ComposeCuisines == { <<>>, <<"I","t","a","l","i","a","n">> }
ComposePrefs ==
    { <<>>,
      [dietary_restrictions |-> PyList(<<<<"V","e","g","a","n">>>>)],
      [dietary_restrictions |-> PyList(<<<<"N","o","n","-","V","e","g","e","t","a","r","i","a","n">>, <<"G","l","u","t","e","n","-","F","r","e","e">>>>),
       health_goals |-> PyDict(<< <<<<"m","u","s","c","l","e","_","g","a","i","n">>, TRUE>>, <<<<"w","e","i","g","h","t","_","l","o","s","s">>, FALSE>> >>)],
      [dietary_restrictions |-> PyList(<<<<"L","o","w","-","C","a","r","b">>>>),
       health_goals |-> PyDict(<< <<<<"w","e","i","g","h","t","_","l","o","s","s">>, TRUE>>, <<<<"m","u","s","c","l","e","_","g","a","i","n">>, TRUE>> >>)] }

PaddedLines ==
    <<"\n"," "," ","v","e","g","a","n"," ","f","o","o","d"," ","P","u","n","e"," "," ","\n","\n","\\","t","h","e","a","l","t","h","y"," ","c","a","f","e"," ","P","u","n","e","\n","P","u","n","e"," ","v","e","g","a","n"," ","z","o","m","a","t","o","\n","P","u","n","e"," ","s","a","l","a","d"," ","b","a","r","\n">>
TwoLines ==
    <<"v","e","g","a","n"," ","f","o","o","d"," ","P","u","n","e","\n","\n","h","e","a","l","t","h","y"," ","c","a","f","e"," ","P","u","n","e","\n"," "," "," ">>

ComposeAnswers ==
    { MistralOk(ThreeLines), MistralOk(PaddedLines), MistralOk(TwoLines),
      MistralOk(<<>>), MistralStatus(HttpServerError), MistralException,
      MistralMalformed }

InitCompose ==
    /\ config \in Configs
    /\ user_preferences = {}
    /\ nutrition_logs = {}
    /\ pref_seq = 0
    /\ log_seq = 0
    /\ now = 1
    /\ last = NoOperation
    /\ saves = NoSaves
    /\ db_lock = Unlocked

NextCompose ==
    \E location \in ComposeLocations, user_prefs \in ComposePrefs,
       cuisine \in ComposeCuisines :
        ComposeQueries(location, user_prefs, cuisine, ComposeAnswers)

SpecCompose == InitCompose /\ [][NextCompose]_vars

(***************************************************************************)
(* SpecSearch: search_restaurants, the search service answering the three  *)
(* composed queries in any of the ways below.  A result is named by the    *)
(* query and the position it came at.                                      *)
(***************************************************************************)
SearchExaAnswers ==
    {
      << ExaOk(<<Result("r1", "q1.1"), Result("r2", "q1.2"), Result("r3", "q1.3"), Result("r4", "q1.4")>>),
         ExaOk(<<Result("r5", "q2.1"), Result("r6", "q2.2"), Result("r7", "q2.3"), Result("r8", "q2.4")>>),
         ExaOk(<<Result("r9", "q3.1"), Result("r10", "q3.2"), Result("r11", "q3.3"), Result("r12", "q3.4")>>) >>,
      << ExaOk(<<Result("r1", "q1.1"), Result("r2", "q1.2"), Result("r3", "q1.3"), Result("r4", "q1.4"), Result("r5", "q1.5")>>),
         ExaOk(<<Result("r4", "q2.1"), Result("r5", "q2.2"), Result("r6", "q2.3"), Result("r7", "q2.4"), Result("r8", "q2.5")>>),
         ExaOk(<<Result("r9", "q3.1")>>) >>,
      << ExaOk(<<Result("r1", "q1.1"), Result("r2", "q1.2"), Result("r3", "q1.3"), Result("r4", "q1.4")>>),
         ExaOk(<<Result("r3", "q2.1"), Result("r4", "q2.2"), Result("r5", "q2.3"), Result("r6", "q2.4")>>),
         ExaOk(<<Result("r1", "q3.1"), Result("r7", "q3.2"), Result("", "q3.3"), Result("r8", "q3.4")>>) >>,
      << ExaStatus(HttpServerError),
         ExaOk(<<Result("r1", "q2.1"), Result("r1", "q2.2")>>),
         ExaException >>,
      << ExaOk(<<>>),
         ExaMalformed,
         ExaOk(<<>>) >>,
      << ExaStatus(HttpServerError),
         ExaException,
         ExaMalformed >>,
      << ExaOk(<<Result("", "q1.1")>>),
         ExaOk(<<>>),
         ExaStatus(HttpServerError) >>,
      << ExaOk(<<Result("r1", "q1.1"), Result("r2", "q1.2")>>),
         ExaStatusWithBody(HttpServerError, <<Result("r9", "q2.1")>>),
         ExaOk(<<Result("r2", "q3.1"), Result("r3", "q3.2")>>) >>,
      << ExaOk(<<Result("r1", "q1.1")>>),
         ExaException,
         ExaOk(<<Result("r2", "q3.1")>>) >>,
      << ExaMalformed,
         ExaStatus(HttpUnauthorized),
         ExaOk(<<Result("r1", "q3.1"), Result("r2", "q3.2")>>) >>,
      << ExaOk(<<Result("r1", "q1.1"), Result("", "q1.2"), Result("", "q1.3"), Result("r2", "q1.4"), Result("", "q1.5")>>),
         ExaOk(<<Result("", "q2.1"), Result("r3", "q2.2"), Result("", "q2.3"), Result("", "q2.4"), Result("", "q2.5")>>),
         ExaOk(<<Result("r4", "q3.1")>>) >>,
      << ExaOk(<<Result("", "q1.1"), Result("", "q1.2"), Result("", "q1.3"), Result("", "q1.4"), Result("", "q1.5")>>),
         ExaOk(<<Result("", "q2.1"), Result("", "q2.2"), Result("", "q2.3"), Result("", "q2.4"), Result("", "q2.5")>>),
         ExaOk(<<Result("r1", "q3.1")>>) >>,
      << ExaOk(<<Result("r1", "q1.1"), NotAnObject>>),
         ExaOk(<<Result("r2", "q2.1")>>),
         ExaOk(<<Result("r3", "q3.1")>>) >>,
      << ExaOk(<<Result("r1", "q1.1"), Result("r2", "q1.2"), Result("r3", "q1.3"), Result("r4", "q1.4"), Result("r5", "q1.5"), Result("r6", "q1.6")>>),
         ExaOk(<<Result("r1", "q2.1"), Result("r7", "q2.2"), Result("r8", "q2.3"), Result("r9", "q2.4"), Result("r10", "q2.5"), Result("r11", "q2.6")>>),
         ExaOk(<<Result("r12", "q3.1")>>) >> }

SearchComposeAnswers == { MistralOk(ThreeLines), MistralStatus(HttpServerError) }

InitSearch ==
    /\ config \in Configs
    /\ user_preferences = {}
    /\ nutrition_logs = {}
    /\ pref_seq = 0
    /\ log_seq = 0
    /\ now = 1
    /\ last = NoOperation
    /\ saves = NoSaves
    /\ db_lock = Unlocked

NextSearch ==
    \E cuisine \in ComposeCuisines, user_id \in {"", "u1"} :
        SearchRestaurants(<<"P","u","n","e">>, cuisine, user_id, TRUE,
                          SearchComposeAnswers, SearchExaAnswers)

SpecSearch == InitSearch /\ [][NextSearch]_vars

(***************************************************************************)
(* The response synthesizer alone: every shape of search result, under     *)
(* every configuration and every kind of answer of the text-generation     *)
(* service.                                                                *)
(***************************************************************************)
FoundResults(results) ==
    [results |-> results, total_found |-> Len(results),
     debug_info |-> [successful |-> 1, unique |-> Len(results)]]

SixResults ==
    <<Result("r1", "t1"), Result("r2", "t2"), Result("r3", "t3"),
      Result("r4", "t4"), Result("r5", "t5"), Result("r6", "t6")>>

FormatShapes ==
    { [error |-> ExaNotConfigured],
      [error |-> SearchFailed(ItemNotDict)],
      EmptyResults(3, 0),
      [results |-> <<>>],
      PyNone,
      [results |-> <<Result("r1", "t1"), NotAnObject>>],
      FoundResults(<<Result("r1", "t1")>>),
      FoundResults(<<Result("r1", "t1"), Result("", "t2")>>),
      FoundResults(Take(SixResults, MaxListed)),
      FoundResults(SixResults) }

FormatAnswers ==
    { MistralOk(<<"T","r","y"," ","t","1">>), MistralOk(<<" ","\n">>), MistralOk(<<>>),
      MistralStatus(HttpServerError), MistralStatus(HttpUnauthorized),
      MistralException, MistralMalformed }

FormatLocations == { <<"P","u","n","e">>, <<"G","o","a">> }

InitFormat ==
    /\ config \in Configs
    /\ user_preferences = {}
    /\ nutrition_logs = {}
    /\ pref_seq = 0
    /\ log_seq = 0
    /\ now = 1
    /\ last = NoOperation
    /\ saves = NoSaves
    /\ db_lock = Unlocked

NextFormat ==
    \E search_results \in FormatShapes, location \in FormatLocations :
        FormatRestaurantResults(search_results, location, <<>>, FormatAnswers)

SpecFormat == InitFormat /\ [][NextFormat]_vars

(***************************************************************************)
(* The detector alone: queries made of an opening, a link and a place.     *)
(***************************************************************************)
DetectOpenings ==
    { <<"r","e","s","t","a","u","r","a","n","t","s">>,
      <<"B","e","s","t"," ","c","a","f","e">>,
      <<"G","o","o","d"," ","P","i","z","z","a">>,
      <<"d","i","n","n","e","r"," ","i","d","e","a","s">> }

DetectLinks ==
    { <<" ","i","n"," ">>, <<" ","n","e","a","r"," ">>, <<" ","a","t"," ","t","h","e"," ">>,
      <<" ">>, <<","," ">> }

DetectPlaces ==
    { <<"P","u","n","e">>, <<"G","o","a">>, <<"g","o","a">>,
      <<"K","o","r","e","g","a","o","n"," ","P","a","r","k">>,
      <<"N","e","w"," ","T","o","w","n"," ","P","u","n","e">>,
      <<"M","G"," ","R","o","a","d",".">>,
      <<"o","l","d"," ","G","o","a","!">>,
      <<"B","a","n","d","r","a"," ","W","e","s","t"," ","M","u","m","b","a","i"," ","I","n","d","i","a"," ","n","o","w">>,
      <<>> }

DetectQueries ==
    { opening \o link \o place :
        opening \in DetectOpenings, link \in DetectLinks, place \in DetectPlaces }

InitDetect ==
    /\ config \in SysConfigs
    /\ user_preferences = {}
    /\ nutrition_logs = {}
    /\ pref_seq = 0
    /\ log_seq = 0
    /\ now = 1
    /\ last = NoOperation
    /\ saves = NoSaves
    /\ db_lock = Unlocked

NextDetect == \E query \in DetectQueries : DetectRestaurantQuery(query)

SpecDetect == InitDetect /\ [][NextDetect]_vars

(***************************************************************************)
(* The fallback composer alone: preferences with no, one or two            *)
(* restrictions, recognised or not.                                        *)
(***************************************************************************)
FallbackRestrictions ==
    { <<"V","e","g","a","n">>,
      <<"N","o","n","-","V","e","g","e","t","a","r","i","a","n">>,
      <<"G","l","u","t","e","n","-","F","r","e","e">>,
      <<"L","o","w","-","C","a","r","b">>,
      <<"V","e","g","a","n"," ","K","e","t","o">>,
      <<"H","A","L","A","L"," ","o","n","l","y">>,
      <<"K","o","s","h","e","r">>,
      <<"P","e","s","c","a","t","a","r","i","a","n">>,
      <<"D","a","i","r","y","-","F","r","e","e">> }

FallbackPrefs ==
    { <<>> }
    \cup { [dietary_restrictions |-> PyList(<<r>>)] : r \in FallbackRestrictions }
    \cup { [dietary_restrictions |-> PyList(<<r1, r2>>),
            health_goals |-> PyDict(<< <<<<"w","e","i","g","h","t","_","l","o","s","s">>, TRUE>> >>)] :
           r1 \in FallbackRestrictions, r2 \in FallbackRestrictions }

InitFallback ==
    /\ config \in SysConfigs
    /\ user_preferences = {}
    /\ nutrition_logs = {}
    /\ pref_seq = 0
    /\ log_seq = 0
    /\ now = 1
    /\ last = NoOperation
    /\ saves = NoSaves
    /\ db_lock = Unlocked

NextFallback ==
    \E user_prefs \in FallbackPrefs, cuisine \in ComposeCuisines :
        GenerateFallbackQueries(<<"P","u","n","e">>, user_prefs, cuisine)

SpecFallback == InitFallback /\ [][NextFallback]_vars

(***************************************************************************)
(* The workout planner alone, under every configuration and every kind of  *)
(* answer of the text-generation service.                                  *)
(***************************************************************************)
WorkoutQueries ==
    { <<"g","y","m"," ","w","o","r","k","o","u","t"," ","p","l","a","n">>,
      <<"e","x","e","r","c","i","s","e"," ","r","o","u","t","i","n","e">> }

WorkoutAnswers ==
    { MistralOk(<<"D","a","y"," ","1">>), MistralOk(<<>>),
      MistralStatus(HttpServerError), MistralStatus(HttpUnauthorized),
      MistralException, MistralMalformed }

InitWorkout ==
    /\ config \in Configs
    /\ user_preferences = {}
    /\ nutrition_logs = {}
    /\ pref_seq = 0
    /\ log_seq = 0
    /\ now = 1
    /\ last = NoOperation
    /\ saves = NoSaves
    /\ db_lock = Unlocked

NextWorkout ==
    \E user_prefs \in ComposePrefs, query \in WorkoutQueries :
        GenerateWorkoutPlan(user_prefs, query, WorkoutAnswers)

SpecWorkout == InitWorkout /\ [][NextWorkout]_vars

(***************************************************************************)
(* Two sessions saving preferences at the same time: each call is a        *)
(* process of its own, and every interleaving of their steps is a          *)
(* behaviour.                                                              *)
(***************************************************************************)
InitConcurrent ==
    /\ config \in SysConfigs
    /\ user_preferences = {}
    /\ nutrition_logs = {}
    /\ pref_seq = 0
    /\ log_seq = 0
    /\ now = 1
    /\ last = NoOperation
    /\ saves = NoSaves
    /\ db_lock = Unlocked

NextConcurrent ==
    \/ \E w \in Writers, user_id \in Users, preferences \in Payloads :
          SaveCall(w, user_id, preferences)
    \/ \E w \in Writers : SaveExecute(w) \/ SaveBusy(w) \/ SaveCommit(w)
    \/ Tick

SpecConcurrent == InitConcurrent /\ [][NextConcurrent]_vars

(***************************************************************************)
(* SpecRoute: process_nutrition_query on queries built from a vocabulary   *)
(* of logging, dining, food, fitness and place words.                      *)
(***************************************************************************)
RouteLeads == { <<>>, <<<<"I"," ","h","a","d">>>> }
RouteTopics ==
    { <<"d","i","n","n","e","r">>, <<"p","i","z","z","a">>, <<"r","e","s","t","a","u","r","a","n","t">>, <<"p","r","o","t","e","i","n">>, <<"c","h","o","c","o","l","a","t","e">>, <<"s","p","a","m">> }
RouteTails ==
    { <<>>, <<<<"g","y","m">>>>, <<<<"i","n"," ","P","u","n","e">>>>, <<<<"W","a","k","a","d">>>>, <<<<"g","y","m"," ","i","n"," ","P","u","n","e">>>> }

RouteQueries ==
    { TextQuery(Join(lead \o <<topic>> \o tail, <<" ">>)) :
          lead \in RouteLeads, topic \in RouteTopics, tail \in RouteTails }
    \cup { TextQuery(<<"I"," ","h","a","d"," ","d","i","n","n","e","r"," ","a","t"," ","a"," ","r","e","s","t","a","u","r","a","n","t"," ","i","n"," ","P","u","n","e">>),
           TextQuery(<<>>),
           NonTextQuery }

RouteAnswers ==
    [extract |-> { MistralOk(FoodObject(PyStr("dinner"), PyNum(600))) },
     compose |-> { MistralStatus(HttpServerError) },
     exa |-> { << ExaOk(<<Result("r1", "q1.1")>>), ExaStatus(HttpServerError),
                  ExaException >> },
     recommend |-> { MistralOk(<<>>) },
     workout |-> { MistralOk(<<>>) },
     advice |-> { MistralOk(<<>>) }]

InitRoute ==
    /\ config \in Configs
    /\ user_preferences = {}
    /\ nutrition_logs = {}
    /\ pref_seq = 0
    /\ log_seq = 0
    /\ now = 1
    /\ last = NoOperation
    /\ saves = NoSaves
    /\ db_lock = Unlocked

NextRoute ==
    \E query \in RouteQueries :
        ProcessNutritionQuery(query, "u1", TRUE, RouteAnswers)

SpecRoute == InitRoute /\ [][NextRoute]_vars

(***************************************************************************)
(* SpecValidate: process_nutrition_query on inputs around the validity     *)
(* filter: empty, not a string, naming a denylist word in either case, and *)
(* inputs of every route that pass.                                        *)
(***************************************************************************)
ValidateQueries ==
    { TextQuery(<<"s","p","a","m">>),
      TextQuery(<<"S","P","A","M"," ","r","e","c","i","p","e","s">>),
      TextQuery(<<"i","s"," ","A","b","u","s","e"," ","o","k">>),
      TextQuery(<<"a","n"," ","I","l","l","e","g","a","l"," ","d","i","e","t">>),
      TextQuery(<<"I"," ","a","t","e"," ","s","p","a","m">>),
      TextQuery(<<"g","y","m"," ","a","b","u","s","e">>),
      TextQuery(<<" ">>),
      TextQuery(<<"s","p","a"," ","m">>),
      TextQuery(<<"p","r","o","t","e","i","n"," ","s","o","u","r","c","e","s">>),
      TextQuery(<<"I"," ","a","t","e"," ","a","n"," ","a","p","p","l","e">>),
      TextQuery(<<"b","e","s","t"," ","r","e","s","t","a","u","r","a","n","t","s"," ","i","n"," ","P","u","n","e">>),
      TextQuery(<<"g","y","m"," ","w","o","r","k","o","u","t"," ","p","l","a","n">>),
      TextQuery(<<>>),
      NonTextQuery }

InitValidate ==
    /\ config \in Configs
    /\ user_preferences = {}
    /\ nutrition_logs = {}
    /\ pref_seq = 0
    /\ log_seq = 0
    /\ now = 1
    /\ last = NoOperation
    /\ saves = NoSaves
    /\ db_lock = Unlocked

NextValidate ==
    \E query \in ValidateQueries, user_id \in {"u1", ""}, store_ok \in BOOLEAN :
        ProcessNutritionQuery(query, user_id, store_ok, RouteAnswers)

SpecValidate == InitValidate /\ [][NextValidate]_vars

(***************************************************************************)
(* SpecFailures: process_nutrition_query on one query of each route, with  *)
(* or without a user id, while each credential may be missing, the store   *)
(* may fail and each external service answers in every way: a usable body, *)
(* a status other than 200, an exception, a malformed body.                *)
(***************************************************************************)
FailureQueries ==
    { TextQuery(<<"I"," ","a","t","e"," ","a","n"," ","a","p","p","l","e">>),
      TextQuery(<<"b","e","s","t"," ","r","e","s","t","a","u","r","a","n","t","s"," ","i","n"," ","P","u","n","e">>),
      TextQuery(<<"g","y","m"," ","w","o","r","k","o","u","t"," ","p","l","a","n">>),
      TextQuery(<<"p","r","o","t","e","i","n"," ","s","o","u","r","c","e","s">>),
      TextQuery(<<"s","p","a","m">>) }

MistralFailures == { MistralStatus(HttpServerError), MistralException, MistralMalformed }

FailureAnswers ==
    [extract |-> { MistralOk(FoodObject(PyStr("apple"), PyNum(95))),
                   MistralOk(FoodObject(PyUnbindable, PyNum(95))),
                   MistralOk(FoodInvalidJson),
                   MistralOk(FoodNotAnObject) } \cup MistralFailures,
     compose |-> { MistralOk(ThreeLines) } \cup MistralFailures,
     exa |-> { << ExaOk(<<Result("r1", "q1.1"), Result("r2", "q1.2")>>),
                  ExaStatus(HttpServerError), ExaException >>,
               << ExaMalformed, ExaOk(<<NotAnObject>>), ExaOk(<<>>) >>,
               << ExaStatus(HttpServerError), ExaException, ExaMalformed >> },
     recommend |-> { MistralOk(<<>>) } \cup MistralFailures,
     workout |-> { MistralOk(<<>>) } \cup MistralFailures,
     advice |-> { MistralOk(<<>>), MistralStatus(HttpUnauthorized) } \cup MistralFailures]

InitFailures ==
    /\ config \in Configs
    /\ user_preferences = {}
    /\ nutrition_logs = {}
    /\ pref_seq = 0
    /\ log_seq = 0
    /\ now = 1
    /\ last = NoOperation
    /\ saves = NoSaves
    /\ db_lock = Unlocked

NextFailures ==
    \E query \in FailureQueries, user_id \in {"u1", ""}, store_ok \in BOOLEAN :
        ProcessNutritionQuery(query, user_id, store_ok, FailureAnswers)

SpecFailures == InitFailures /\ [][NextFailures]_vars


(***************************************************************************)
(* SpecDaily: the food log and its daily summary: entries are logged for   *)
(* two users over the days, and the summary is requested at any time.      *)
(***************************************************************************)
DailyEntries ==
    { <<"u1", PyNum(100)>>, <<"u1", PyNum(200)>>, <<"u1", PyNum(50)>>,
      <<"u2", PyNum(100)>>, <<"u2", PyNone>> }

InitDaily ==
    /\ config \in SysConfigs
    /\ user_preferences = {}
    /\ nutrition_logs = {}
    /\ pref_seq = 0
    /\ log_seq = 0
    /\ now = 1
    /\ last = NoOperation
    /\ saves = NoSaves
    /\ db_lock = Unlocked

NextDaily ==
    \/ \E entry \in DailyEntries :
          LogFoodIntake(entry[1], PyStr("rice"), entry[2], TRUE)
    \/ \E user_id \in Users, store_ok \in BOOLEAN : ViewTodaysLog(user_id, store_ok)
    \/ Tick

SpecDaily == InitDaily /\ [][NextDaily]_vars

(***************************************************************************)
(* SpecFoodChat: the food-logging sub-flow for users with and without      *)
(* stored preferences and for a missing user id, the text-generation       *)
(* service answering with text of every kind: an object with both fields,  *)
(* with one, with values of other types, text that is not JSON, JSON that  *)
(* is not an object, and the failures of the call.                         *)
(***************************************************************************)
FoodChatResponses ==
    { MistralOk(FoodObject(PyStr("apple"), PyNum(95))),
      MistralOk(FoodObject(PyUnbindable, PyNum(200))),
      MistralOk(FoodObject(PyStr("apple"), PyNone)),
      MistralOk(FoodObject(PyStr("apple"), PyNum(-50))),
      MistralOk(FoodObject(PyStr("apple"), PyStr("many"))),
      MistralOk([FoodObject(PyStr("apple"), PyNone) EXCEPT !.has_calories = FALSE]),
      MistralOk(FoodInvalidJson),
      MistralOk(FoodNotAnObject) } \cup MistralFailures

InitFoodChat ==
    /\ config \in Configs
    /\ user_preferences = {}
    /\ nutrition_logs = {}
    /\ pref_seq = 0
    /\ log_seq = 0
    /\ now = 1
    /\ last = NoOperation
    /\ saves = NoSaves
    /\ db_lock = Unlocked

NextFoodChat ==
    \/ \E preferences \in {p \in FullPayloads : TruthyNumber(p, "daily_calorie_target")} :
          SaveUserPreferences("u1", preferences, TRUE)
    \/ \E user_id \in {"u1", "u2", ""}, store_ok \in BOOLEAN, response \in FoodChatResponses :
          HandleFoodLoggingRequest(<<"I"," ","a","t","e"," ","a","n"," ","a","p","p","l","e">>,
                                   user_id, store_ok, response)

SpecFoodChat == InitFoodChat /\ [][NextFoodChat]_vars

(***************************************************************************)
(* Spec: the whole system (the store operations, the food logger, the      *)
(* chat) under any sequence of operations, with few inputs.                *)
(***************************************************************************)
SysPayloads == {p \in FullPayloads : TruthyNumber(p, "daily_calorie_target")}

SysQueries ==
    { TextQuery(<<"I"," ","a","t","e"," ","a","n"," ","a","p","p","l","e">>),
      TextQuery(<<"b","e","s","t"," ","r","e","s","t","a","u","r","a","n","t","s"," ","i","n"," ","P","u","n","e">>),
      TextQuery(<<"p","r","o","t","e","i","n"," ","s","o","u","r","c","e","s">>) }

SysAnswers ==
    [extract |-> { MistralOk(FoodObject(PyStr("apple"), PyNum(95))),
                   MistralOk(FoodInvalidJson),
                   MistralException },
     compose |-> { MistralOk(ThreeLines) },
     exa |-> { << ExaOk(<<Result("r1", "q1.1"), Result("r2", "q1.2")>>),
                  ExaOk(<<Result("r1", "q2.1")>>),
                  ExaStatus(HttpServerError) >> },
     recommend |-> { MistralOk(<<>>), MistralException },
     workout |-> { MistralOk(<<>>), MistralStatus(HttpServerError) },
     advice |-> { MistralOk(<<>>), MistralStatus(HttpUnauthorized) }]

Init ==
    /\ config \in SysConfigs
    /\ user_preferences = {}
    /\ nutrition_logs = {}
    /\ pref_seq = 0
    /\ log_seq = 0
    /\ now = 1
    /\ last = NoOperation
    /\ saves = NoSaves
    /\ db_lock = Unlocked

Next ==
    \/ \E preferences \in SysPayloads :
          SaveUserPreferences("u1", preferences, TRUE)
    \/ GetUserPreferences("u1", TRUE)
    \/ \E user_id \in Users, food_item \in {"", "rice"}, store_ok \in BOOLEAN :
          FoodLoggerSubmit(user_id, food_item, 200, store_ok)
    \/ \E user_id \in Users : ViewTodaysLog(user_id, TRUE)
    \/ \E query \in SysQueries, store_ok \in BOOLEAN, user_id \in {"u1"} :
          ProcessNutritionQuery(query, user_id, store_ok, SysAnswers)
    \/ Tick

Spec == Init /\ [][Next]_vars

(***************************************************************************)
(* Claims about the routing of process_nutrition_query.                    *)
(***************************************************************************)
\* the handler the fixed order gives a query, from the keywords it contains
HandlerInOrder(q) ==
    IF ContainsAny(Lower(q), food_logging_keywords) THEN "food_logging"
    ELSE IF TruthyText(detect_restaurant_query(q)) THEN "restaurant_search"
    ELSE IF ContainsAny(Lower(q), workout_keywords) THEN "workout_plan"
    ELSE "nutrition_advice"

\* the handler that issues a call
HandlerOfCall(call) ==
    IF call.service = "exa" THEN "restaurant_search"
    ELSE IF call.purpose = "extract" THEN "food_logging"
    ELSE IF call.purpose \in {"compose", "recommend"} THEN "restaurant_search"
    ELSE IF call.purpose = "workout" THEN "workout_plan"
    ELSE "nutrition_advice"

\* C1: a query that passes validation is handed to exactly one handler, the
\* first in the order food logging, restaurant search (a location was
\* detected), workout plan (a fitness keyword), general advice; only that
\* handler's external calls are issued.  A query with a logging keyword and
\* a dining keyword is handled as food logging and never reaches the
\* restaurant search.
C1_RoutingOrder ==
    (last.op = "process_nutrition_query" /\ validate_input(last.query)) =>
        /\ last.handlers = <<HandlerInOrder(last.query.s)>>
        /\ \A i \in DOMAIN last.calls : HandlerOfCall(last.calls[i]) = last.handlers[1]
        /\ (/\ ContainsAny(Lower(last.query.s), food_logging_keywords)
            /\ ContainsAny(Lower(last.query.s), restaurant_keywords))
           => /\ last.handlers = <<"food_logging">>
              /\ \A i \in DOMAIN last.calls : last.calls[i].service # "exa"

\* C1 witness: a query with a logging keyword and a dining keyword, in which
\* a location is detected and for which the search service is configured,
\* has been handled as food logging
C1_Witness ==
    /\ last.op = "process_nutrition_query" /\ validate_input(last.query)
    /\ ContainsAny(Lower(last.query.s), food_logging_keywords)
    /\ ContainsAny(Lower(last.query.s), restaurant_keywords)
    /\ TruthyText(detect_restaurant_query(last.query.s))
    /\ config.exa_api_key # "" /\ config.mistral_api_key # ""
    /\ last.handlers = <<"food_logging">>
    /\ last.calls = <<MistralCall("extract")>>

(***************************************************************************)
(* Claims about search_restaurants.                                        *)
(***************************************************************************)
ExaCalls(calls) == SelectSeq(calls, LAMBDA c : c.service = "exa")

\* the results received from the first n search calls, in the order received
RECURSIVE ReceivedUpTo(_, _)
ReceivedUpTo(exa, n) ==
    IF n = 0 THEN <<>>
    ELSE ReceivedUpTo(exa, n - 1)
            \o (IF exa[n].kind = "ok" THEN exa[n].results ELSE <<>>)

\* the positions of the first occurrence of each url
FirstSeen(received) ==
    {i \in DOMAIN received :
        /\ received[i].url # ""
        /\ \A j \in 1..(i - 1) : received[j].url # received[i].url}

\* the k-th smallest element of a set of positions
KthOf(positions, k) ==
    CHOOSE i \in positions : Cardinality({j \in positions : j <= i}) = k

\* C2: a non-error result of search_restaurants has, as results, the first
\* min(8, n) elements of the received results reduced to the first
\* occurrence of each URL, in the order received, and total_found = n, the
\* number of distinct URLs.
C2_DedupFirstSeen ==
    (last.op = "search_restaurants" /\ "results" \in DOMAIN last.ret) =>
        LET received == ReceivedUpTo(last.exa, Len(ExaCalls(last.calls)))
            firsts == FirstSeen(received)
            n == Cardinality(firsts)
        IN  /\ last.ret.total_found = n
            /\ Len(last.ret.results) = (IF n < 8 THEN n ELSE 8)
            /\ \A k \in DOMAIN last.ret.results :
                  last.ret.results[k] = received[KthOf(firsts, k)]
            /\ \A k1, k2 \in DOMAIN last.ret.results :
                  last.ret.results[k1].url = last.ret.results[k2].url => k1 = k2

\* C2 witness: a search received more than 8 distinct URLs, one of them
\* twice, and returned 8 results
C2_Witness ==
    /\ last.op = "search_restaurants" /\ "results" \in DOMAIN last.ret
    /\ last.ret.total_found > 8
    /\ Len(last.ret.results) = 8
    /\ LET received == ReceivedUpTo(last.exa, Len(ExaCalls(last.calls)))
       IN  \E i, j \in DOMAIN received : i < j /\ received[i].url = received[j].url

\* the queries search_restaurants composes for the recorded request
ComposedFor(request) ==
    LET user_prefs == IF request.user_id # ""
                      THEN get_user_preferences(user_preferences, request.user_id,
                                                request.store_ok)
                      ELSE <<>>
        preferred == ListOf(user_prefs, "cuisine_preferences")
    IN  generate_smart_search_queries(
            request.location, user_prefs,
            IF request.cuisine = <<>> /\ preferred # <<>> THEN preferred[1]
            ELSE request.cuisine,
            request.compose).queries

\* C3: the search calls are the composed queries, in order, one call each;
\* no call is issued once 10 results have been accumulated, and a query is
\* left out only for that reason.  With 4 results to each query the search
\* stops after the 3rd.
C3_StopsAtQuota ==
    (last.op = "search_restaurants" /\ config.exa_api_key # "") =>
        LET issued == ExaCalls(last.calls)
            n == Len(issued)
            composed == ComposedFor(last)
        IN  /\ n <= Len(composed)
            /\ \A i \in 1..n : issued[i].purpose = composed[i]
            /\ \A k \in 0..(n - 1) : Len(ReceivedUpTo(last.exa, k)) < 10
            /\ n < Len(composed) => Len(ReceivedUpTo(last.exa, n)) >= 10
            /\ (\A i \in 1..3 : last.exa[i].kind = "ok" /\ Len(last.exa[i].results) = 4)
               => n = 3

\* C3 witness: the quota was reached with the second answer and the third
\* composed query was not sent
C3_Witness ==
    /\ last.op = "search_restaurants" /\ config.exa_api_key # ""
    /\ Len(ExaCalls(last.calls)) = 2
    /\ Len(ComposedFor(last)) = 3
    /\ Len(ReceivedUpTo(last.exa, 1)) < 10
    /\ Len(ReceivedUpTo(last.exa, 2)) >= 10

\* C4: without the search credential the result carries an error field and
\* no call is issued; when the searches ran and no unique result survived
\* the result has results = [], total_found = 0 and the diagnostic, and no
\* error field; no result carries both an error field and a results field.
C4_ErrorOrEmptyShape ==
    last.op = "search_restaurants" =>
        /\ config.exa_api_key = "" =>
              /\ "error" \in DOMAIN last.ret
              /\ last.calls = <<>>
        /\ (/\ config.exa_api_key # ""
            /\ LET received == ReceivedUpTo(last.exa, Len(ExaCalls(last.calls)))
               IN  /\ \A i \in DOMAIN received : received[i].is_dict
                   /\ FirstSeen(received) = {})
           => /\ DOMAIN last.ret = {"results", "total_found", "debug_info"}
              /\ last.ret.results = <<>>
              /\ last.ret.total_found = 0
        /\ ~({"error", "results"} \subseteq DOMAIN last.ret)

\* C4 witness: searches ran, results were received, none had a URL, and the
\* empty-result shape was returned
C4_Witness ==
    /\ last.op = "search_restaurants" /\ config.exa_api_key # ""
    /\ ExaCalls(last.calls) # <<>>
    /\ ReceivedUpTo(last.exa, Len(ExaCalls(last.calls))) # <<>>
    /\ "error" \notin DOMAIN last.ret
    /\ last.ret.results = <<>>
    /\ last.ret.total_found = 0

(***************************************************************************)
(* Claims about the query composer.                                        *)
(***************************************************************************)
\* the non-blank lines of a text
NonBlankLines(text) ==
    SelectSeq(Split(text, <<"\n">>), LAMBDA line : Strip(line) # <<>>)

\* the lines the text-generation service produced for the recorded request,
\* none when it was not called or its call failed
GeneratedLines(request) ==
    IF request.response # None /\ request.response[1].kind = "ok"
    THEN NonBlankLines(request.response[1].content)
    ELSE <<>>

\* C5: _generate_smart_search_queries returns exactly 3 queries: the first
\* three non-blank lines of the generated text (without their surrounding
\* whitespace) when the call succeeded and produced at least 3 of them, and
\* otherwise what the fallback returns for the same arguments.
C5_ThreeQueries ==
    last.op = "generate_smart_search_queries" =>
        /\ Len(last.ret) = 3
        /\ IF Len(GeneratedLines(last)) >= 3
           THEN \A i \in 1..3 : last.ret[i] = Strip(GeneratedLines(last)[i])
           ELSE last.ret = generate_fallback_queries(last.location, last.user_prefs,
                                                     last.cuisine)

\* C5 witness: the generated text had blank lines and more than three
\* non-blank ones, and its first three non-blank lines were returned
C5_Witness ==
    /\ last.op = "generate_smart_search_queries"
    /\ last.response # None /\ last.response[1].kind = "ok"
    /\ Len(GeneratedLines(last)) > 3
    /\ Len(Split(last.response[1].content, <<"\n">>)) > Len(GeneratedLines(last))
    /\ last.ret # generate_fallback_queries(last.location, last.user_prefs, last.cuisine)
    /\ \A i \in 1..3 : last.ret[i] = Strip(GeneratedLines(last)[i])

\* C6: with text generation disabled the composer returns 'best {dietary
\* tags} {cuisine, or restaurants} in {location}', '{health terms, or good}
\* restaurants {location} reviews' and '{location} restaurants [first
\* dietary tag] zomato swiggy', whatever the state; for ('Pune', ['Vegan'],
\* no cuisine) these are always the same three strings.
C6_FallbackTemplates ==
    (last.op = "generate_smart_search_queries" /\ config.mistral_api_key = "") =>
        LET tags == DietaryTerms(ListOf(last.user_prefs, "dietary_restrictions"))
            health == HealthTerms(last.user_prefs)
        IN  /\ last.ret =
                << <<"b","e","s","t"," ">> \o Join(tags, <<" ">>) \o <<" ">>
                      \o (IF last.cuisine = <<>> THEN <<"r","e","s","t","a","u","r","a","n","t","s">> ELSE last.cuisine)
                      \o <<" ","i","n"," ">> \o last.location,
                   (IF health = <<>> THEN <<"g","o","o","d">> ELSE Join(health, <<" ">>))
                      \o <<" ","r","e","s","t","a","u","r","a","n","t","s"," ">> \o last.location \o <<" ","r","e","v","i","e","w","s">>,
                   last.location \o <<" ","r","e","s","t","a","u","r","a","n","t","s">>
                      \o (IF tags = <<>> THEN <<>> ELSE <<" ">> \o tags[1])
                      \o <<" ","z","o","m","a","t","o"," ","s","w","i","g","g","y">> >>
            /\ (/\ last.location = <<"P","u","n","e">>
                /\ DOMAIN last.user_prefs = {"dietary_restrictions"}
                /\ last.user_prefs["dietary_restrictions"] = PyList(<<<<"V","e","g","a","n">>>>)
                /\ last.cuisine = <<>>)
               => last.ret = << <<"b","e","s","t"," ","v","e","g","a","n"," ","r","e","s","t","a","u","r","a","n","t","s"," ","i","n"," ","P","u","n","e">>,
                                <<"g","o","o","d"," ","r","e","s","t","a","u","r","a","n","t","s"," ","P","u","n","e"," ","r","e","v","i","e","w","s">>,
                                <<"P","u","n","e"," ","r","e","s","t","a","u","r","a","n","t","s"," ","v","e","g","a","n"," ","z","o","m","a","t","o"," ","s","w","i","g","g","y">> >>

\* C6 witness: with text generation disabled, queries were composed for
\* ('Pune', ['Vegan'], no cuisine)
C6_Witness ==
    /\ last.op = "generate_smart_search_queries" /\ config.mistral_api_key = ""
    /\ last.location = <<"P","u","n","e">>
    /\ DOMAIN last.user_prefs = {"dietary_restrictions"}
    /\ last.user_prefs["dietary_restrictions"] = PyList(<<<<"V","e","g","a","n">>>>)
    /\ last.cuisine = <<>>
    /\ last.ret[3] = <<"P","u","n","e"," ","r","e","s","t","a","u","r","a","n","t","s"," ","v","e","g","a","n"," ","z","o","m","a","t","o"," ","s","w","i","g","g","y">>

(***************************************************************************)
(* Claims about the preference store.                                      *)
(***************************************************************************)
\* what get_user_preferences returns for a field that the stored payload
\* did not carry
AbsentValue(k) ==
    IF k = "health_goals" THEN PyDict(<<>>)
    ELSE IF k \in StructKeys THEN PyList(<<>>)
    ELSE None

FieldEquals(got, k, value) ==
    /\ k \in DOMAIN got
    /\ IF k \in StructKeys
       THEN got[k].kind # "text" /\ SameValue(got[k], value)
       ELSE got[k] = value

\* the record got reflects the payload p only: the fields of p with their
\* values, every other field absent
ReflectsOnly(got, p) ==
    /\ \A k \in DOMAIN p : FieldEquals(got, k, p[k])
    /\ \A k \in PrefKeys \ DOMAIN p : FieldEquals(got, k, AbsentValue(k))

\* C7: after a successful save_user_preferences(u, p), get_user_preferences(u)
\* returns every field of p with the saved value, the four structured
\* fields as lists and a mapping equal to the saved ones, not as JSON text.
C7_RoundTrip ==
    (last.op = "save_user_preferences" /\ last.ret = SavedMessage) =>
        LET got == get_user_preferences(user_preferences, last.user_id, TRUE)
        IN  \A k \in DOMAIN last.preferences :
                FieldEquals(got, k, last.preferences[k])

\* C7 witness: a payload with all its fields, a non-empty list and a
\* non-empty mapping has been saved
C7_Witness ==
    /\ last.op = "save_user_preferences" /\ last.ret = SavedMessage
    /\ DOMAIN last.preferences = PrefKeys
    /\ last.preferences["cuisine_preferences"].v # <<>>
    /\ last.preferences["health_goals"].v # <<>>
    /\ last.preferences["daily_calorie_target"] # None

\* C8: the preference store never holds two records with the same user
\* identifier.
C8_OneRecordPerUser ==
    \A r1, r2 \in user_preferences : r1.user_id = r2.user_id => r1 = r2

\* C8 witness: a second save for a user has replaced the record of the
\* first, and the store holds exactly one record for that user
C8_Witness ==
    /\ last.op = "save_user_preferences" /\ last.ret = SavedMessage
    /\ last.replaced # {}
    /\ Cardinality({r \in user_preferences : r.user_id = last.user_id}) = 1

\* C9: a successful save_user_preferences(u, p) leaves a record of u that
\* reflects p only (a field absent from p reads back as None, [] or {},
\* whatever an earlier save stored) and leaves the records of all other
\* users unchanged.
C9_FullRecordUpsert ==
    [][(pref_seq' # pref_seq) =>
        /\ ReflectsOnly(get_user_preferences(user_preferences', last'.user_id, TRUE),
                        last'.preferences)
        /\ {r \in user_preferences' : r.user_id # last'.user_id}
              = {r \in user_preferences : r.user_id # last'.user_id}]_vars

\* C9 witness: a save has replaced a record that had an age, a calorie
\* target and dietary restrictions with a payload that carries none of them
C9_Witness ==
    /\ last.op = "save_user_preferences" /\ last.ret = SavedMessage
    /\ \E r \in last.replaced :
          /\ r.age # None /\ r.daily_calorie_target # None
          /\ json_loads(r.dietary_restrictions).value.v # <<>>
    /\ DOMAIN last.preferences \cap {"age", "daily_calorie_target", "dietary_restrictions"} = {}

(***************************************************************************)
(* Claims about the food log.                                              *)
(***************************************************************************)
\* the step is a log_food_intake that reported success, from the form or
\* from the chat (the passing of time records no operation)
LoggedStep ==
    /\ now' = now
    /\ \/ last'.op = "log_food_intake" /\ last'.ret.kind = "Logged"
       \/ /\ last'.op = "process_nutrition_query"
          /\ last'.handlers = <<"food_logging">>
          /\ last'.ret.block = "confirmation"
          /\ last'.ret.log_result.kind = "Logged"

\* C10: the food log is append-only: no step changes or removes an entry, a
\* step adds at most one entry, its id is greater than every id in the log,
\* and a successful log_food_intake adds exactly one entry.
C10_AppendOnly ==
    [][/\ nutrition_logs \subseteq nutrition_logs'
       /\ Cardinality(nutrition_logs' \ nutrition_logs) <= 1
       /\ \A r \in nutrition_logs' \ nutrition_logs :
             \A o \in nutrition_logs : o.id < r.id
       /\ LoggedStep => Cardinality(nutrition_logs' \ nutrition_logs) = 1]_vars

\* C10 witness: the log holds two entries, of different ids, the second
\* written by the last operation
C10_Witness ==
    /\ last.op = "log_food_intake" /\ last.ret.kind = "Logged"
    /\ Cardinality(nutrition_logs) = 2
    /\ Cardinality({r.id : r \in nutrition_logs}) = 2
    /\ Cardinality({r.user_id : r \in nutrition_logs}) = 2

(***************************************************************************)
(* Claims about the daily summary.                                         *)
(***************************************************************************)
\* the entries the summary of the last operation is about, and their sum
SummarisedEntries ==
    {r \in nutrition_logs : r.user_id = last.user_id /\ r.timestamp = now}

RECURSIVE TotalOf(_)
TotalOf(rows) ==
    IF rows = {} THEN 0
    ELSE LET r == CHOOSE x \in rows : TRUE IN r.calories.n + TotalOf(rows \ {r})

\* C11: a daily summary shown for a user reports as total the sum of the
\* calories of that user's entries of the current day and as count their
\* number, entries of other users and other days not contributing; it is
\* shown whenever the user has entries today, all with a number of calories,
\* and the store answers.
C11_DailySummary ==
    [][(last'.op = "view_todays_log" /\ now' = now) =>
        /\ last'.ret.kind = "Today's Food Log Summary" =>
              /\ last'.ret.total_calories = TotalOf(SummarisedEntries')
              /\ last'.ret.meals_logged = Cardinality(SummarisedEntries')
        /\ last'.ret.kind = "Today's Food Log Summary" <=>
              /\ SummarisedEntries' # {}
              /\ \A r \in SummarisedEntries' : r.calories.t = "num"
              /\ last'.ret.kind # "Error retrieving daily summary"]_vars

\* C11 witness: 100, 200 and 50 calories were logged for u1 today, another
\* user has an entry today too, and the summary of u1 shows 350 and 3
C11_Witness ==
    /\ last.op = "view_todays_log" /\ last.user_id = "u1"
    /\ {r.calories : r \in SummarisedEntries} = {PyNum(100), PyNum(200), PyNum(50)}
    /\ Cardinality(SummarisedEntries) = 3
    /\ last.ret.kind = "Today's Food Log Summary"
    /\ last.ret.total_calories = 350 /\ last.ret.meals_logged = 3

(***************************************************************************)
(* Claims about the validity filter.                                       *)
(***************************************************************************)
Denylist == { <<"s","p","a","m">>, <<"a","b","u","s","e">>, <<"i","l","l","e","g","a","l">> }

\* the character is the letter, in lower or in upper case
IsLetter(c, letter) ==
    c = letter \/ \E i \in 1..Len(LowerChars) : letter = LowerChars[i] /\ c = UpperChars[i]

NamesWord(text, word) ==
    \E i \in 1..(Len(text) - Len(word) + 1) :
        \A k \in 1..Len(word) : IsLetter(text[i + k - 1], word[k])

MustReject(query) ==
    ~query.is_str \/ query.s = <<>> \/ \E word \in Denylist : NamesWord(query.s, word)

\* C12: a query that is empty, not a string, or names a denylist word in
\* any case gets the fixed rejection message, with no handler run, no
\* external call, no read of the store and the store unchanged; every other
\* query passes validation and is given to a handler.
C12_RejectsInvalid ==
    [][last'.op = "process_nutrition_query" =>
          IF MustReject(last'.query)
          THEN /\ last'.ret = [block |-> "Invalid input. Please provide a valid nutrition question."]
               /\ last'.handlers = <<>> /\ last'.calls = <<>> /\ last'.reads = <<>>
               /\ UNCHANGED <<user_preferences, nutrition_logs, pref_seq, log_seq>>
          ELSE /\ last'.ret # [block |-> "Invalid input. Please provide a valid nutrition question."]
               /\ Len(last'.handlers) = 1]_vars

\* C12 witness: a query naming a denylist word in upper case, sent by a
\* known user while both services are configured, was rejected
C12_Witness ==
    /\ last.op = "process_nutrition_query"
    /\ last.query = TextQuery(<<"S","P","A","M"," ","r","e","c","i","p","e","s">>)
    /\ last.user_id = "u1"
    /\ config.mistral_api_key # "" /\ config.exa_api_key # ""
    /\ last.ret = [block |-> "Invalid input. Please provide a valid nutrition question."]
    /\ last.calls = <<>> /\ last.reads = <<>>

(***************************************************************************)
(* Claims about failures.                                                  *)
(***************************************************************************)
\* C13: process_nutrition_query never ends by raising: whatever the input,
\* the route, the credentials, the store and the answers of the services,
\* it returns a text.
C13_NeverRaises ==
    last.op = "process_nutrition_query" =>
        /\ ~last.raised
        /\ "block" \in DOMAIN last.ret

\* C13 witness: the workout handler called the service, got a failure and
\* raised; the request returned the apology text
C13_Witness ==
    /\ last.op = "process_nutrition_query"
    /\ last.handlers = <<"workout_plan">>
    /\ last.calls # <<>>
    /\ ~last.raised
    /\ last.ret = [block |-> "Sorry, I encountered an error processing your query"]

\* the credential of the service a call is sent to
CredentialOf(call) ==
    IF call.service = "mistral" THEN config.mistral_api_key ELSE config.exa_api_key

\* C14: no request is sent to a service whose credential is missing,
\* whatever the path: query composition, web search, recommendation
\* write-up, nutrition advice, workout plan, food extraction.
C14_NoCallWithoutCredential ==
    \A i \in 1..Len(last.calls) : CredentialOf(last.calls[i]) # ""

\* C14, the paths that check the credential: every path but food extraction
C14_CheckedPaths ==
    \A i \in 1..Len(last.calls) :
        last.calls[i].purpose # "extract" => CredentialOf(last.calls[i]) # ""

\* C14 witness: food extraction was requested although the credential of
\* the text-generation service is missing
C14_Witness ==
    /\ last.op = "process_nutrition_query"
    /\ config.mistral_api_key = ""
    /\ last.handlers = <<"food_logging">>
    /\ \E i \in 1..Len(last.calls) :
          last.calls[i].service = "mistral" /\ last.calls[i].purpose = "extract"

(***************************************************************************)
(* Claims about food logging from chat.                                    *)
(***************************************************************************)
\* the step is a chat request whose generated text was parsed: the sub-flow
\* went on to log and to compose the confirmation
ParsedStep ==
    /\ now' = now
    /\ last'.op = "process_nutrition_query"
    /\ last'.handlers = <<"food_logging">>
    /\ last'.ret.block = "confirmation"

\* the stored preferences of the user have a daily calorie target
HasStoredTarget(user_id) ==
    \E r \in user_preferences :
        r.user_id = user_id /\ r.daily_calorie_target # None
                            /\ r.daily_calorie_target # Some(0)

\* the step appended exactly one entry, of the user, with the food and the
\* calories the confirmation names
AppendedConfirmedEntry ==
    \E r \in nutrition_logs' :
        /\ nutrition_logs' \ nutrition_logs = {r}
        /\ r.user_id = last'.user_id
        /\ r.food_item = last'.ret.log_result.food_item
        /\ r.calories = last'.ret.log_result.calories

\* C15: when the generated text parses, exactly one entry (the user, the
\* extracted food, the extracted calories) has been appended when the
\* sub-flow returns, the returned text confirms that entry, and it carries
\* the progress line exactly when the stored preferences have a target.
C15_ParsedIsLogged ==
    [][ParsedStep =>
          /\ AppendedConfirmedEntry
          /\ last'.ret.log_result.kind = "Logged"
          /\ (last'.ret.progress # None) <=> HasStoredTarget(last'.user_id)]_vars

\* C15, when the INSERT succeeds: the entry is appended and confirmed, and
\* the progress line follows the preferences that could be read
C15_WhenWritten ==
    [][(ParsedStep /\ last'.ret.log_result.kind = "Logged") =>
          /\ AppendedConfirmedEntry
          /\ (last'.ret.progress # None) => HasStoredTarget(last'.user_id)]_vars

\* C15 witness: the generated text parsed, nothing was appended, and the
\* returned text is the confirmation wrapped around the error of the INSERT
C15_Witness ==
    /\ last.op = "process_nutrition_query"
    /\ last.handlers = <<"food_logging">>
    /\ last.ret.block = "confirmation"
    /\ last.ret.log_result.kind = "Error logging food"
    /\ nutrition_logs = {}

\* the corrective hints of the sub-flow
CorrectiveHints ==
    { "I couldn't understand the food details. Please try: 'I ate [food name]'",
      "I couldn't process your food logging request. Please try: 'I ate [food name]'" }

\* the generated text is not a JSON object
Unparsable(response) == response.kind = "ok" /\ response.content.json # "object"

\* C16: when the generated text cannot be parsed into the expected object,
\* the sub-flow returns the message with the corrective hint and appends
\* nothing to the food log.
C16_UnparsableGetsHint ==
    [][(/\ last'.op = "handle_food_logging_request"
        /\ last'.user_id # ""
        /\ Unparsable(last'.response)) =>
          /\ last'.ret.block \in CorrectiveHints
          /\ nutrition_logs' = nutrition_logs]_vars

\* C16, for text that is not JSON at all: the hint is returned and nothing
\* is appended; and no unparsable text ever appends an entry
C16_InvalidJsonGetsHint ==
    [][(/\ last'.op = "handle_food_logging_request"
        /\ last'.user_id # ""
        /\ Unparsable(last'.response)) =>
          /\ last'.response.content.json = "invalid" => last'.ret.block \in CorrectiveHints
          /\ nutrition_logs' = nutrition_logs]_vars

\* C16 witness: the generated text was JSON but not an object, and the
\* sub-flow returned the bare error text
C16_Witness ==
    /\ last.op = "handle_food_logging_request"
    /\ last.user_id = "u1"
    /\ last.response = MistralOk(FoodNotAnObject)
    /\ last.ret = [block |-> "Error logging food"]

\* C17: a food-logging query without a user id gets the fixed message that
\* asks for a User ID; no call is issued to the text-generation service and
\* no entry is appended to the food log.
C17_NoUserIdNoLog ==
    [][(/\ last'.op = "process_nutrition_query"
        /\ last'.handlers = <<"food_logging">>
        /\ last'.user_id = "") =>
          /\ last'.ret = [block |-> "Please set your User ID first"]
          /\ last'.calls = <<>>
          /\ nutrition_logs' = nutrition_logs]_vars

\* C17 witness: with the key of the text-generation service set and an
\* entry already logged for a user, a food-logging query came without a
\* user id
C17_Witness ==
    /\ last.op = "process_nutrition_query"
    /\ last.handlers = <<"food_logging">>
    /\ last.user_id = ""
    /\ config.mistral_api_key # ""
    /\ nutrition_logs # {}
    /\ last.ret = [block |-> "Please set your User ID first"]

(***************************************************************************)
(* Claims about the response synthesizer.                                  *)
(***************************************************************************)
\* the blocks other than the generated answer open with a fixed heading;
\* the generated answer is the stripped content and is all the text there is
IsEmptyText(ret) == ret.block = "ai" /\ ret.text = <<>>

IsErrorShape(search_results) ==
    search_results # PyNone /\ "error" \in DOMAIN search_results

IsEmptyShape(search_results) ==
    /\ search_results # PyNone
    /\ "error" \notin DOMAIN search_results
    /\ search_results.results = <<>>

IsFoundShape(search_results) ==
    /\ search_results # PyNone
    /\ "error" \notin DOMAIN search_results
    /\ search_results.results # <<>>

\* what format_restaurant_results does for the error shape and for zero
\* results, and when it asks the text-generation service
FixedBlocks ==
    /\ IsErrorShape(last.search_results)
          => /\ last.ret.block \in {"Restaurant Search Not Available", "Search Issue"}
             /\ last.calls = <<>>
    /\ IsEmptyShape(last.search_results)
          => /\ last.ret.block = "No Restaurant Results Found"
             /\ "debug_info" \in DOMAIN last.search_results
                   => /\ "debug_info" \in DOMAIN last.ret
                      /\ last.ret.debug_info = last.search_results.debug_info
             /\ last.calls = <<>>
    /\ last.calls # <<>>
          => /\ IsFoundShape(last.search_results)
             /\ last.calls = <<MistralCall("recommend")>>

\* C18: format_restaurant_results returns a non-empty text for every shape
\* of search result: the error shape gets an explanatory block with dining
\* tips, zero results get the 'No Restaurant Results Found' block with the
\* diagnostic string when there is one, both without a text-generation
\* call, which is attempted only for a non-empty list of results.
C18_NonEmptyForEveryShape ==
    last.op = "format_restaurant_results"
        => ~IsEmptyText(last.ret) /\ FixedBlocks

\* C18, the part that holds: the fixed blocks and the condition of the call
C18_FixedBlocks ==
    last.op = "format_restaurant_results" => FixedBlocks

\* a list of results whose generated answer is blank
C18_Witness ==
    /\ last.op = "format_restaurant_results"
    /\ IsFoundShape(last.search_results)
    /\ last.response = Some(MistralOk(<<" ","\n">>))
    /\ last.ret.block = "ai"
    /\ last.ret.text = <<>>

\* the text-generation call of the synthesizer is unavailable or has failed
RecommendationUnavailable ==
    /\ last.op = "format_restaurant_results"
    /\ IsFoundShape(last.search_results)
    /\ \A i \in DOMAIN last.search_results.results : last.search_results.results[i].is_dict
    /\ \/ config.mistral_api_key = ""
       \/ /\ last.response # None
          /\ ~(last.response[1].kind = "ok" /\ last.response[1].status = HttpOk)

\* the returned text is the numbered listing of the first five results,
\* each with its title; withUrl: and with its URL, where it has one
ListsFirstFive(withUrl) ==
    LET results == last.search_results.results
        listed == Take(results, MaxListed)
    IN  /\ last.ret.block = "listing"
        /\ Len(last.ret.entries) = Len(listed)
        /\ \A i \in DOMAIN listed :
              /\ last.ret.entries[i].n = i
              /\ last.ret.entries[i].title = listed[i].title
              /\ withUrl /\ listed[i].url # ""
                    => last.ret.entries[i].url = Some(listed[i].url)

\* C19: whenever the text-generation call of the response synthesizer is
\* unavailable or fails (missing credential, non-success status, or an
\* exception), the returned text is a numbered listing giving both the
\* title and the URL of the first five results.
C19_FallbackListsTitleAndUrl ==
    RecommendationUnavailable => ListsFirstFive(TRUE)

\* C19, the part that holds: the fallback is always the numbered listing of
\* the first five titles, and it gives the URLs when the credential is
\* missing or the status is not a success
C19_FallbackListsTitles ==
    RecommendationUnavailable
        => /\ ListsFirstFive(FALSE)
           /\ (config.mistral_api_key = "" \/ last.response[1].kind = "status")
                 => ListsFirstFive(TRUE)

\* six results with URLs, the request raising: five titles, no URL
C19_Witness ==
    /\ RecommendationUnavailable
    /\ last.response = Some(MistralException)
    /\ last.search_results.results = SixResults
    /\ Len(last.ret.entries) = MaxListed
    /\ \A i \in DOMAIN last.ret.entries : last.ret.entries[i].url = None

(***************************************************************************)
(* Claims about failed search calls.                                       *)
(***************************************************************************)
\* the i-th search call returned a non-success status or raised
CallFailed(exa, i) == ~(exa[i].kind = "ok" /\ exa[i].status = HttpOk)

\* the results of the successful calls among the first n, in the order
\* received
RECURSIVE KeptUpTo(_, _)
KeptUpTo(exa, n) ==
    IF n = 0 THEN <<>>
    ELSE KeptUpTo(exa, n - 1) \o (IF CallFailed(exa, n) THEN <<>> ELSE exa[n].results)

\* C20: a search call that returns a non-success status or raises does not
\* abort the search: the next composed query is still issued, in order, the
\* call adds nothing to the results and is not counted as successful, the
\* results of the successful calls before and after it are kept, and one
\* search makes at most 6 calls.
C20_FailedCallIsSkipped ==
    (last.op = "search_restaurants" /\ config.exa_api_key # "") =>
        LET issued == ExaCalls(last.calls)
            n == Len(issued)
            composed == ComposedFor(last)
            kept == KeptUpTo(last.exa, n)
            urls == {kept[k].url : k \in DOMAIN kept} \ {""}
        IN  /\ n <= MaxQueries
            /\ \A i \in 1..n : issued[i].purpose = composed[i]
            /\ \A i \in 1..n :
                  (CallFailed(last.exa, i) /\ i < Len(composed) /\ i < MaxQueries)
                      => n > i
            /\ (\A k \in DOMAIN kept : kept[k].is_dict)
                  => /\ "error" \notin DOMAIN last.ret
                     /\ last.ret.debug_info.successful
                            = Cardinality({i \in 1..n : ~CallFailed(last.exa, i)})
                     /\ last.ret.total_found = Cardinality(urls)
                     /\ Cardinality(urls) <= MaxReturned
                           => {last.ret.results[k].url : k \in DOMAIN last.ret.results} = urls

\* C20 witness: the second of three calls failed, its body carrying a
\* result; the third was issued, and the results of the first and the third
\* were returned, without that of the second
C20_Witness ==
    /\ last.op = "search_restaurants" /\ config.exa_api_key # ""
    /\ Len(ExaCalls(last.calls)) = 3
    /\ ~CallFailed(last.exa, 1) /\ CallFailed(last.exa, 2) /\ ~CallFailed(last.exa, 3)
    /\ last.exa[2].results # <<>>
    /\ "results" \in DOMAIN last.ret
    /\ last.ret.debug_info.successful = 2
    /\ {last.ret.results[k].url : k \in DOMAIN last.ret.results} = {"r1", "r2", "r3"}

(***************************************************************************)
(* Claims about the location strategies.                                   *)
(***************************************************************************)
\* the query passes the keyword gate of detect_restaurant_query
IsRestaurantQuery(query) ==
    \/ ContainsAny(Lower(query), restaurant_keywords)
    \/ /\ ContainsAny(Lower(query), food_keywords)
       /\ ContainsAny(Lower(query), food_location_places)

StrategyA(query) == strategy_indicator(Lower(query), location_indicators)
StrategyB(query) == strategy_common_place(Lower(query), common_places)
StrategyC(query) == strategy_capitalised(query)

\* C21: detect_restaurant_query returns the location of the first of the
\* strategies (a) text after a locative preposition, (b) gazetteer name,
\* (c) longest run of capitalised words that yields one; the result of a
\* later strategy never replaces that of an earlier one.
C21_StrategyOrder ==
    (last.op = "detect_restaurant_query" /\ IsRestaurantQuery(last.query)) =>
        LET a == StrategyA(last.query)
            b == StrategyB(last.query)
            c == StrategyC(last.query)
        IN  /\ IsSome(a) => last.ret = a
            /\ (~IsSome(a) /\ IsSome(b)) => last.ret = b
            /\ (~IsSome(a) /\ ~IsSome(b)) => last.ret = c
            /\ IsSome(last.ret) => last.ret[1] # <<>>

\* C21 witness: no preposition is followed by a kept word, the gazetteer and
\* the capitalised words give different locations, and the gazetteer name is
\* returned
C21_Witness ==
    /\ last.op = "detect_restaurant_query" /\ IsRestaurantQuery(last.query)
    /\ ~IsSome(StrategyA(last.query))
    /\ IsSome(StrategyB(last.query))
    /\ IsSome(StrategyC(last.query))
    /\ StrategyB(last.query) # StrategyC(last.query)
    /\ last.ret = StrategyB(last.query)

(***************************************************************************)
(* Claims about concurrent saves.                                          *)
(***************************************************************************)
\* both calls have returned and were for the same user
BothReturnedFor(user_id) ==
    \A w \in Writers : saves[w].pc = "returned" /\ saves[w].user_id = user_id

\* the call that committed last
LastCommitter ==
    CHOOSE w \in Writers : \A v \in Writers : saves[v].commit_no <= saves[w].commit_no

\* C22: when two save_user_preferences calls for the same user run
\* concurrently, in every interleaving the store ends with exactly one
\* record of the user, which is in full the payload of the call that
\* committed last, never a mixture of the two payloads.
C22_ConcurrentSaves ==
    \A user_id \in Users :
        /\ Cardinality({r \in user_preferences : r.user_id = user_id}) <= 1
        /\ BothReturnedFor(user_id) =>
              /\ \E w \in Writers : saves[w].ret = SavedMessage
              /\ Cardinality({r \in user_preferences : r.user_id = user_id}) = 1
              /\ \A r \in user_preferences :
                    r.user_id = user_id
                        => r = PrefRow(user_id, saves[LastCommitter].preferences,
                                       r.id, r.updated_at)

\* C22 witness: the two calls were in flight together, with payloads of
\* different fields; both saved, the full payload first, and the record is
\* the second payload alone
C22_Witness ==
    /\ BothReturnedFor("u1")
    /\ \A w \in Writers : saves[w].ret = SavedMessage /\ saves[w].overlapped
    /\ DOMAIN saves["w1"].preferences = PrefKeys
    /\ DOMAIN saves["w2"].preferences = {"dietary_restrictions", "age"}
    /\ saves["w1"].commit_no < saves["w2"].commit_no
    /\ \E r \in user_preferences : r.user_id = "u1" /\ r.weight_goal = None

\* C22, a second case: one call found the database locked by the other and
\* returned the error text; the record is the payload of the other
C22_BusyWitness ==
    /\ BothReturnedFor("u1")
    /\ saves["w1"].ret = SavedMessage
    /\ saves["w2"].ret = SaveErrorMessage
    /\ saves["w1"].preferences # saves["w2"].preferences

(***************************************************************************)
(* Claims about retries.                                                   *)
(***************************************************************************)
\* the steps that call the text-generation service
MistralPurposes == {"compose", "recommend", "advice", "workout", "extract"}

\* the same request to the same service
SameCall(c, d) == c.service = d.service /\ c.purpose = d.purpose

\* C23: no external call is retried: within one request no query is sent to
\* the search service twice, the text-generation service is called at most
\* once per step, and a request whose calls fail ends with a text (the
\* fallback or an error text), not with another attempt.
C23_NoRetry ==
    last.op = "process_nutrition_query" =>
        /\ \A i, j \in DOMAIN last.calls :
              SameCall(last.calls[i], last.calls[j]) => i = j
        /\ \A purpose \in MistralPurposes :
              Cardinality({i \in DOMAIN last.calls :
                              SameCall(last.calls[i], MistralCall(purpose))}) <= 1
        /\ Len(ExaCalls(last.calls)) <= MaxQueries
        /\ ~last.raised /\ "block" \in DOMAIN last.ret

\* C23 witness: a restaurant request whose second and third search calls and
\* whose recommendation call failed: five calls in all, and the listing of
\* the two results of the first search call, without URLs
C23_Witness ==
    /\ last.op = "process_nutrition_query"
    /\ last.handlers = <<"restaurant_search">>
    /\ Len(last.calls) = 5
    /\ Len(ExaCalls(last.calls)) = 3
    /\ last.ret.block = "listing"
    /\ last.ret.found = 2
    /\ last.ret.entries[1].url = None

(***************************************************************************)
(* Claims about the workout planner.                                       *)
(***************************************************************************)
\* C24: generate_workout_plan raises, instead of returning a text, when the
\* credential of the text-generation service is absent, and does so before
\* any request is sent; it also raises when the request comes back with a
\* status other than 200.
C24_WorkoutFailsLoudly ==
    last.op = "generate_workout_plan" =>
        /\ config.mistral_api_key = "" => (last.raised /\ last.calls = <<>>)
        /\ (config.mistral_api_key # "" /\ last.response[1].kind = "status")
              => (last.raised /\ last.calls = <<MistralCall("workout")>>)
        /\ ~last.raised
              => (/\ config.mistral_api_key # ""
                  /\ last.response[1].kind = "ok"
                  /\ last.response[1].status = HttpOk)

\* C24 witness: without the credential the planner raised and no request
\* was sent
C24_Witness ==
    /\ last.op = "generate_workout_plan"
    /\ config.mistral_api_key = ""
    /\ last.raised
    /\ last.calls = <<>>
    /\ last.response = None

\* C24, a second case: with the credential, status 500 made it raise
C24_StatusWitness ==
    /\ last.op = "generate_workout_plan"
    /\ last.response = Some(MistralStatus(HttpServerError))
    /\ last.raised

(***************************************************************************)
(* Claims about the calories of the food log.                              *)
(***************************************************************************)
\* C25: every entry of the food log has a calorie count that is a
\* non-negative number, whichever path wrote it, after any sequence of
\* logging operations.
C25_CaloriesNonNegative ==
    \A r \in nutrition_logs : r.calories.t = "num" /\ r.calories.n >= 0

\* C25 witness: the chat sub-flow has logged the entry it extracted, whose
\* calories are a negative number
C25_Witness ==
    /\ last.op = "handle_food_logging_request"
    /\ last.response = MistralOk(FoodObject(PyStr("apple"), PyNum(-50)))
    /\ \E r \in nutrition_logs :
          r.user_id = last.user_id /\ r.calories = PyNum(-50)

(***************************************************************************)
(* Claims about the dietary tags of the fallback composer.                 *)
(***************************************************************************)
CanonicalTags ==
    { <<"v","e","g","e","t","a","r","i","a","n">>, <<"v","e","g","a","n">>, <<"p","e","s","c","a","t","a","r","i","a","n">>, <<"k","e","t","o">>,
      <<"g","l","u","t","e","n","-","f","r","e","e">>, <<"h","a","l","a","l">>, <<"k","o","s","h","e","r">> }

\* the diets a restriction names: the rows of the lookup whose keyword
\* occurs in the restriction, letter case aside
NamedDiets(restriction) ==
    {i \in DOMAIN DietKeywords : Contains(Lower(restriction), DietKeywords[i][1])}

IsRecognised(restriction) == NamedDiets(restriction) # {}

\* what one restriction contributes: the tag of the first diet it names in
\* the order of the lookup, nothing when it names none
TagOf(restriction) ==
    IF IsRecognised(restriction)
    THEN <<DietKeywords[CHOOSE i \in NamedDiets(restriction) :
                            \A j \in NamedDiets(restriction) : i <= j][2]>>
    ELSE <<>>

RECURSIVE TagsInOrder(_)
TagsInOrder(restrictions) ==
    IF restrictions = <<>> THEN <<>>
    ELSE TagOf(Head(restrictions)) \o TagsInOrder(Tail(restrictions))

\* C26: in the fallback composer the dietary tags come from a fixed lookup
\* of seven keywords: a restriction that names a recognised diet contributes
\* that diet's canonical tag, one tag at most and in the order of the
\* restrictions, and a restriction that names none contributes nothing to
\* any of the three queries.
C26_DietaryTags ==
    last.op = "generate_fallback_queries" =>
        LET restrictions == ListOf(last.user_prefs, "dietary_restrictions")
            recognised == SelectSeq(restrictions, IsRecognised)
            tags == TagsInOrder(restrictions)
        IN  /\ {DietKeywords[i][2] : i \in DOMAIN DietKeywords} = CanonicalTags
            /\ Len(DietKeywords) = Cardinality(CanonicalTags)
            /\ Len(tags) = Len(recognised)
            /\ \A i \in DOMAIN tags : tags[i] \in CanonicalTags
            /\ last.ret = FallbackTemplates(last.location, tags,
                                            HealthTerms(last.user_prefs), last.cuisine)
            /\ last.ret = FallbackTemplates(last.location, TagsInOrder(recognised),
                                            HealthTerms(last.user_prefs), last.cuisine)

\* C26 witness: an unrecognised restriction before one that names two
\* diets: the queries carry the one tag 'vegan'
C26_Witness ==
    /\ last.op = "generate_fallback_queries"
    /\ ListOf(last.user_prefs, "dietary_restrictions")
          = << <<"D","a","i","r","y","-","F","r","e","e">>, <<"V","e","g","a","n"," ","K","e","t","o">> >>
    /\ last.cuisine = <<>>
    /\ last.ret[1] = <<"b","e","s","t"," ","v","e","g","a","n"," ","r","e","s","t","a","u","r","a","n","t","s"," ","i","n"," ","P","u","n","e">>
    /\ last.ret[3] = <<"P","u","n","e"," ","r","e","s","t","a","u","r","a","n","t","s"," ","v","e","g","a","n"," ","z","o","m","a","t","o"," ","s","w","i","g","g","y">>

(***************************************************************************)
(* Claims about the location strategy (a).                                 *)
(***************************************************************************)
\* the text of the query, in its own letter case, between the first
\* occurrence of the indicator and the next one
TextAfter(query, indicator) ==
    LET parts == Split(Lower(query), indicator)
        start == Len(parts[1]) + Len(indicator) + 1
    IN  SubSeq(query, start, start + Len(parts[2]) - 1)

\* the tokens kept, from the first on, up to the first that is not kept: a
\* token is kept when it is longer than three characters or, with byCase,
\* title-cased in the query
RECURSIVE KeptTokens(_, _)
KeptTokens(tokens, byCase) ==
    IF tokens = <<>> THEN <<>>
    ELSE LET token == StripChars(Head(tokens), {".", ",", "!", "?"})
         IN  IF token # <<>> /\ ((byCase /\ IsTitle(token)) \/ Len(token) > MinLongWord)
             THEN <<Lower(token)>> \o KeptTokens(Tail(tokens), byCase)
             ELSE <<>>

\* strategy (a) as described: the tokens kept among the first four after
\* the first indicator, in list order, that is followed by a kept token
RECURSIVE LocationAfterPreposition(_, _, _)
LocationAfterPreposition(query, indicators, byCase) ==
    IF indicators = <<>> THEN None
    ELSE LET kept ==
                 IF Contains(Lower(query), Head(indicators))
                 THEN KeptTokens(Take(SplitWs(Strip(TextAfter(query, Head(indicators)))),
                                      MaxLocationWords),
                                 byCase)
                 ELSE <<>>
         IN  IF kept # <<>> THEN Some(Title(Join(kept, <<" ">>)))
             ELSE LocationAfterPreposition(query, Tail(indicators), byCase)

\* C27: in location strategy (a) a token after the locative preposition is
\* kept when it is title-cased in the query or longer than three
\* characters; at most four tokens are examined, collection stops at the
\* first token that is neither, and the strategy yields a location exactly
\* when at least one token was kept.
C27_TitleCasedOrLong ==
    (last.op = "detect_restaurant_query" /\ IsRestaurantQuery(last.query))
        => StrategyA(last.query)
              = LocationAfterPreposition(last.query, location_indicators, TRUE)

\* C27, the part that holds: the same with tokens kept by their length alone
C27_LongTokens ==
    (last.op = "detect_restaurant_query" /\ IsRestaurantQuery(last.query))
        => StrategyA(last.query)
              = LocationAfterPreposition(last.query, location_indicators, FALSE)

\* C27 witness: 'Goa', title-cased and of three letters, follows 'in', and
\* strategy (a) yields nothing
C27_Witness ==
    /\ last.op = "detect_restaurant_query"
    /\ last.query = <<"r","e","s","t","a","u","r","a","n","t","s"," ","i","n"," ","G","o","a">>
    /\ IsTitle(TextAfter(last.query, <<"i","n"," ">>))
    /\ StrategyA(last.query) = None

(***************************************************************************)
(* Claims about what a chat request writes.                                *)
(***************************************************************************)
\* the step is a chat request that ran to its end
ChatRequestStep ==
    /\ last'.op = "process_nutrition_query"
    /\ now' = now
    /\ saves' = saves

\* C28: process_nutrition_query changes the store only on the food-logging
\* route, where it appends at most one entry to the food log and leaves the
\* preference records as they are; the rejection, restaurant, workout and
\* advice routes leave the preference records and the food log unchanged,
\* whatever the services answer.
C28_WritesOnlyFoodLog ==
    [][ChatRequestStep =>
          /\ user_preferences' = user_preferences
          /\ pref_seq' = pref_seq
          /\ last'.handlers = <<"food_logging">>
                => /\ nutrition_logs \subseteq nutrition_logs'
                   /\ Cardinality(nutrition_logs' \ nutrition_logs) <= 1
                   /\ \A r \in nutrition_logs' \ nutrition_logs :
                         r.user_id = last'.user_id /\ r.id = log_seq'
          /\ last'.handlers # <<"food_logging">>
                => /\ nutrition_logs' = nutrition_logs
                   /\ log_seq' = log_seq]_vars

\* C28 witness: with a preference record and an entry in the store, a
\* restaurant request has issued its calls
C28_Witness ==
    /\ last.op = "process_nutrition_query"
    /\ last.handlers = <<"restaurant_search">>
    /\ last.calls # <<>>
    /\ user_preferences # {}
    /\ nutrition_logs # {}

\* C28, a second case: a food-logging request has appended the second entry
C28_AppendWitness ==
    /\ last.op = "process_nutrition_query"
    /\ last.handlers = <<"food_logging">>
    /\ last.ret.block = "confirmation"
    /\ Cardinality(nutrition_logs) = 2
    /\ user_preferences # {}

(***************************************************************************)
(* Claims about results without a URL.                                     *)
(***************************************************************************)
\* C29: a result whose URL is missing or empty never appears in the results
\* search_restaurants returns and is not counted in total_found, but it
\* counts toward the quota of 10 accumulated results that ends the search
\* early; a search whose received results all lack a URL returns the
\* empty-result shape.
C29_UrllessResults ==
    (last.op = "search_restaurants" /\ config.exa_api_key # "") =>
        LET n == Len(ExaCalls(last.calls))
            received == ReceivedUpTo(last.exa, n)
            urls == {received[i].url : i \in DOMAIN received} \ {""}
        IN  (\A i \in DOMAIN received : received[i].is_dict) =>
                /\ "results" \in DOMAIN last.ret
                /\ \A k \in DOMAIN last.ret.results : last.ret.results[k].url # ""
                /\ last.ret.total_found = Cardinality(urls)
                /\ n < Len(ComposedFor(last)) => Len(received) >= ResultQuota
                /\ Len(received) >= ResultQuota
                      => Len(ReceivedUpTo(last.exa, n - 1)) < ResultQuota
                /\ urls = {} =>
                      /\ DOMAIN last.ret = {"results", "total_found", "debug_info"}
                      /\ last.ret.results = <<>>
                      /\ last.ret.total_found = 0

\* C29 witness: ten results were received from two calls, seven of them
\* without a URL; the third query was not sent and three results were
\* returned
C29_Witness ==
    /\ last.op = "search_restaurants" /\ config.exa_api_key # ""
    /\ Len(ExaCalls(last.calls)) = 2
    /\ Len(ComposedFor(last)) = 3
    /\ LET received == ReceivedUpTo(last.exa, 2)
       IN  /\ Len(received) = ResultQuota
           /\ Cardinality({i \in DOMAIN received : received[i].url = ""}) = 7
    /\ last.ret.total_found = 3
    /\ Len(last.ret.results) = 3

\* C29, a second case: every received result lacked a URL, the quota ended
\* the search, and the empty-result shape was returned
C29_AllUrllessWitness ==
    /\ last.op = "search_restaurants" /\ config.exa_api_key # ""
    /\ Len(ExaCalls(last.calls)) = 2
    /\ Len(ReceivedUpTo(last.exa, 2)) = ResultQuota
    /\ last.ret.results = <<>>
    /\ last.ret.total_found = 0

(***************************************************************************)
(* Claims about the errors of the restaurant search.                       *)
(***************************************************************************)
ExaKeyName == <<"E","X","A","_","A","P","I","_","K","E","Y">>

\* The block format_restaurant_results renders for a value search_restaurants
\* returned, as the restaurant route of process_nutrition_query passes it on
RenderedBlock(search_results, location) ==
    format_restaurant_results(search_results, location, <<>>, MistralException).ret.block

\* C30: every error value search_restaurants returns, for a missing
\* credential as well as for an unexpected exception, mentions EXA_API_KEY,
\* so the synthesizer renders the 'Restaurant Search Not Available' block for
\* it and never the 'Search Issue' block; and search_restaurants returns an
\* error exactly when the credential is missing or the search raised.
C30_ErrorsNameTheKey ==
    last.op = "search_restaurants" =>
        /\ config.exa_api_key = "" =>
              /\ "error" \in DOMAIN last.ret
              /\ last.calls = <<>>
        /\ "error" \in DOMAIN last.ret =>
              /\ DOMAIN last.ret = {"error"}
              /\ Contains(last.ret.error, ExaKeyName)
              /\ RenderedBlock(last.ret, last.location)
                    = "Restaurant Search Not Available"
        /\ RenderedBlock(last.ret, last.location) # "Search Issue"

\* C30 witness: the credential was set, the search raised after its calls
\* and its error was rendered as 'Restaurant Search Not Available'
C30_Witness ==
    /\ last.op = "search_restaurants"
    /\ config.exa_api_key # ""
    /\ ExaCalls(last.calls) # <<>>
    /\ "error" \in DOMAIN last.ret
    /\ last.ret.error = SearchFailed(ItemNotDict)
    /\ RenderedBlock(last.ret, last.location) = "Restaurant Search Not Available"

\* C30, a second case: the credential was missing
C30_MissingKeyWitness ==
    /\ last.op = "search_restaurants"
    /\ config.exa_api_key = ""
    /\ last.ret = [error |-> ExaNotConfigured]
    /\ RenderedBlock(last.ret, last.location) = "Restaurant Search Not Available"

\* C30 on the restaurant route of a chat request: the 'Search Issue' block is
\* never the answer, and a missing credential is answered with 'Restaurant
\* Search Not Available'
C30_RouteNeverSearchIssue ==
    (last.op = "process_nutrition_query" /\ last.handlers = <<"restaurant_search">>) =>
        /\ last.ret.block # "Search Issue"
        /\ config.exa_api_key = "" => last.ret.block = "Restaurant Search Not Available"

\* C30 on the route, its case: the credential was set, the search raised
\* and the request was answered with 'Restaurant Search Not Available'
C30_RouteWitness ==
    /\ last.op = "process_nutrition_query" /\ last.handlers = <<"restaurant_search">>
    /\ config.exa_api_key # ""
    /\ ExaCalls(last.calls) # <<>>
    /\ last.ret.block = "Restaurant Search Not Available"
====
